---- MODULE Spec2Model ----
(***************************************************************************)
(* Model of the oscana data pipeline: DataHandler (data_handler.py), the   *)
(* storage strategy DataIOStrategy / PandasIO (io_base.py, pandas_io.py),  *)
(* the transform ledger TransformMetadata (t_metadata.py) and FileMetadata *)
(* (f_metadata.py).  The program is single-threaded: while one public      *)
(* operation runs (pc # "idle") no other operation starts.  Loops are      *)
(* modelled one iteration per step so that the order of attempts, of the   *)
(* diagnostics and of the final error can be observed.                     *)
(***************************************************************************)
EXTENDS Integers, Sequences, FiniteSets, TLC

(* ------------------------------ bounds --------------------------------- *)

\* Longest transform list handed to one apply_transforms call.
MaxTransforms == 3

\* Longest file list handed to one ingestion call.
MaxFiles == 2

\* Longest variable list handed to the constructor.
MaxVars == 3

\* Longest ledger: apply_transforms is not called when the ledger could
\* grow beyond it.
MaxLedger == 3

\* Number of calls of the strategy's loaders and writer in one behaviour.
MaxLoadCalls == 2

\* Longest file list handed to a loader when all source kinds are in play.
MaxKindFiles == 1

\* Longest list handed to an operation when a handler's whole lifetime is
\* in play.
MaxLifeList == 1

\* Longest ledger handed to the ledger comparison.
MaxEntries == 2

\* Largest number of places in which a File Metadata handed to the
\* compatibility test differs from the reference metadata.
MaxDiff == 1

(* --------------------------- small helpers ----------------------------- *)

\* All sequences over S of length 0..n.
SeqsUpTo(S, n) == UNION {[1..k -> S] : k \in 0..n}

\* Python `x in list`.
InSeq(x, s) == \E k \in 1..Len(s) : s[k] = x

\* pd.concat of a list of tables (tables are sequences of rows).
RECURSIVE Concat(_)
Concat(ss) == IF ss = <<>> THEN <<>> ELSE Head(ss) \o Concat(Tail(ss))

\* The value "no exception reached the caller".
NoError == [type |-> "none", msg |-> "none", n |-> 0]

\* An exception object: its class, its message and (for the aggregate
\* transform error) the failure count formatted into the message.
Error(type, msg, n) == [type |-> type, msg |-> msg, n |-> n]

(* ----------------------- the plugin registry --------------------------- *)

\* plugins = import_plugins(file=__file__): pandas_io.py exports PandasIO.
plugins == {"PandasIO"}

\* Strategy names a caller may pass to the constructor.
StrategyNames == {"PandasIO", "NoSuchIO"}

\* Variable paths a caller may request.
VarNames == {"NtpSt/stp.plane", "NtpSt/evt.utc", "NtpSt/evt.run"}

(* --------------------- files and their metadata ------------------------ *)

\* File identifiers (keys of the environment) a caller may pass.
\*   fA, fB : same provenance, different interaction region
\*   fC     : run number 1002 instead of 1001
\*   fX     : key absent from the environment (the load raises)
Files == {"fA", "fB", "fC", "fX"}

\* Modulus of the row values (keeps the tables finite).
ValMod == 4

\* The rows the record source returns for a file: <<file, value>>.
FileRows(f) ==
    CASE f = "fA" -> << <<"fA", 1>>, <<"fA", 2>> >>
      [] f = "fB" -> << <<"fB", 3>> >>
      [] f = "fC" -> << <<"fC", 2>> >>
      [] OTHER    -> <<>>

\* FileMetadata of a loadable file (fields of the dataclass).
FileMeta(f) ==
    [file_name    |-> f,
     file_format  |-> "root",
     file_type    |-> "MC",
     experiment   |-> "MINOS",
     detector     |-> "Near",
     interaction  |-> IF f = "fB" THEN 2 ELSE 1,
     flavour      |-> 3,
     mag_field    |-> 1,
     horn_pos     |-> "L",
     tgt_z_shift  |-> 10,
     current_sign |-> "N",
     current      |-> 185,
     run_number   |-> IF f = "fC" THEN 1002 ELSE 1001,
     mc_version   |-> <<"D", 4>>,
     reco_version |-> <<"dogwood", 1>>,
     start_time   |-> 0,
     end_time     |-> Len(FileRows(f)),
     n_records    |-> Len(FileRows(f)),
     create_time  |-> 0]

\* Variant of FileMetadata_eq with the commented-out interaction comparison
\* restored.
FileMetadata_eq_interaction(a, b) ==
    /\ a.file_type = b.file_type
    /\ a.experiment = b.experiment
    /\ a.detector = b.detector
    /\ a.interaction = b.interaction
    /\ a.flavour = b.flavour
    /\ a.mag_field = b.mag_field
    /\ a.horn_pos = b.horn_pos
    /\ a.tgt_z_shift = b.tgt_z_shift
    /\ a.current_sign = b.current_sign
    /\ a.current = b.current
    /\ a.run_number = b.run_number
    /\ a.mc_version = b.mc_version
    /\ a.reco_version = b.reco_version

\* Variant of FileMetadata_eq that compares the version families only, not
\* the version numbers.
FileMetadata_eq_families(a, b) ==
    /\ a.file_type = b.file_type
    /\ a.experiment = b.experiment
    /\ a.detector = b.detector
    /\ a.flavour = b.flavour
    /\ a.mag_field = b.mag_field
    /\ a.horn_pos = b.horn_pos
    /\ a.tgt_z_shift = b.tgt_z_shift
    /\ a.current_sign = b.current_sign
    /\ a.current = b.current
    /\ a.run_number = b.run_number
    /\ a.mc_version[1] = b.mc_version[1]
    /\ a.reco_version[1] = b.reco_version[1]

\* Variant of FileMetadata_eq that accepts two files when they share the run
\* number or the file name.
FileMetadata_eq_either(a, b) ==
    \/ a.run_number = b.run_number
    \/ a.file_name = b.file_name

\* FileMetadata.__eq__: every listed field matches (interaction, file name,
\* file format, timestamps and record count are not compared).
FileMetadata_eq(a, b) ==
    /\ a.file_type = b.file_type
    /\ a.experiment = b.experiment
    /\ a.detector = b.detector
    /\ a.flavour = b.flavour
    /\ a.mag_field = b.mag_field
    /\ a.horn_pos = b.horn_pos
    /\ a.tgt_z_shift = b.tgt_z_shift
    /\ a.current_sign = b.current_sign
    /\ a.current = b.current
    /\ a.run_number = b.run_number
    /\ a.mc_version[1] = b.mc_version[1]
    /\ a.mc_version[2] = b.mc_version[2]
    /\ a.reco_version[1] = b.reco_version[1]
    /\ a.reco_version[2] = b.reco_version[2]

\* FileMetadata.__ne__
FileMetadata_ne(a, b) == ~FileMetadata_eq(a, b)

\* _v1_naive_loader(variables, file): the table and metadata of one file, or
\* the exception it raises (the key is absent from the environment).
v1_naive_loader(vars, file) ==
    IF file = "fX"
    THEN [raised |-> TRUE,
          exc    |-> Error("OscanaError", "not in .env", 0),
          data   |-> <<>>,
          f_meta |-> FileMeta(file)]
    ELSE [raised |-> FALSE,
          exc    |-> NoError,
          data   |-> FileRows(file),
          f_meta |-> FileMeta(file)]

(* ---------------------------- transforms ------------------------------- *)

\* The transform objects a caller may pass: class name and captured kwargs.
Tfm(name, kwargs) == [name |-> name, kwargs |-> kwargs]

CutLow2   == Tfm("cut_20250101_low", << <<"min", 2>> >>)
CutLow3   == Tfm("cut_20250101_low", << <<"min", 3>> >>)
Double    == Tfm("tfm_20250101_double", <<>>)
Norm      == Tfm("tfm_20250101_norm", <<>>)
Broken    == Tfm("cut_20250101_broken", <<>>)

Transforms == {CutLow2, CutLow3, Double, Norm, Broken}

\* TransformBase.__call__ -> the subclass's _transform(dh): a pure function of
\* the handler's table and mask and of the captured kwargs; returns the new
\* (table, mask) or raises.
\*   cut_..._low    keeps the rows with value >= min, mask all true
\*   tfm_..._double doubles every value, keeps the mask
\*   tfm_..._norm   raises on an empty table, otherwise marks every row
\*   cut_..._broken always raises
Transform_call(t, table, cuts) ==
    CASE t.name = "cut_20250101_low" ->
           LET kept == SelectSeq(table, LAMBDA r : r[2] >= t.kwargs[1][2])
           IN  [raised |-> FALSE, table |-> kept,
                cuts |-> [k \in 1..Len(kept) |-> TRUE]]
      [] t.name = "tfm_20250101_double" ->
           [raised |-> FALSE,
            table |-> [k \in 1..Len(table) |->
                          <<table[k][1], (2 * table[k][2]) % ValMod>>],
            cuts |-> cuts]
      [] t.name = "tfm_20250101_norm" ->
           IF table = <<>>
           THEN [raised |-> TRUE, table |-> table, cuts |-> cuts]
           ELSE [raised |-> FALSE, table |-> table,
                 cuts |-> [k \in 1..Len(table) |-> FALSE]]
      [] OTHER ->
           [raised |-> TRUE, table |-> table, cuts |-> cuts]

(* ------------------------------ state ---------------------------------- *)

VARIABLES
    pc,              \* "new" (no handler), "idle", "apply", "load"; "call" and
                     \* "return" for a function called on its own
    variables,       \* DataHandler._variables
    data_io,         \* name of the strategy class of DataHandler._data_io
    has_cuts_table,  \* DataHandler._has_cuts_table
    t_metadata,      \* DataHandler._t_metadata.transforms (the ledger)
    f_metadata,      \* DataHandler._f_metadata
    data_table,      \* DataHandler._data_table
    cuts_table,      \* DataHandler._cuts_table
    cache,           \* DataIOStrategy._cache
    transforms,      \* apply_transforms: the argument
    i,               \* apply_transforms: iterations completed
    n_errors,        \* apply_transforms: n_errors
    files,           \* hlp_20250205_from_sntp: the argument
    j,               \* hlp_20250205_from_sntp: iterations completed
    exceptions_,     \* hlp_20250205_from_sntp: exceptions_
    data_list,       \* hlp_20250205_from_sntp: data_list
    f_metadata_list, \* hlp_20250205_from_sntp: f_metadata_list
    raised,          \* the exception the last operation raised to its caller
    log,             \* diagnostics the current/last operation logged
    op,              \* the current/last operation, its argument and, for a
                     \* function called on its own, the value it returned
    pre,             \* the handler's state when the operation was called
    attempts,        \* apply_transforms: what each iteration did
    n_load           \* calls of the strategy's loaders and writer so far

handler == <<variables, data_io, has_cuts_table, t_metadata, f_metadata,
             data_table, cuts_table, cache>>

applyFrame == <<transforms, i, n_errors, attempts>>

loadFrame == <<files, j, exceptions_, data_list, f_metadata_list>>

vars == <<pc, handler, applyFrame, loadFrame, raised, log, op, pre, n_load>>

\* The handler's state as an operation finds it.
Snapshot ==
    [data_table |-> data_table, cuts_table |-> cuts_table,
     t_metadata |-> t_metadata, f_metadata |-> f_metadata, cache |-> cache]

NoSnapshot ==
    [data_table |-> <<>>, cuts_table |-> <<>>,
     t_metadata |-> <<>>, f_metadata |-> <<>>, cache |-> <<>>]

\* The value of an attribute that no statement has assigned yet.
NoAttribute == "no attribute"

\* No handler yet: the caller is about to construct one, none of the
\* attributes of DataHandler and of its strategy exists.
InitNew ==
    /\ pc = "new"
    /\ variables = NoAttribute
    /\ data_io = NoAttribute
    /\ has_cuts_table = NoAttribute
    /\ t_metadata = NoAttribute
    /\ f_metadata = NoAttribute
    /\ data_table = NoAttribute
    /\ cuts_table = NoAttribute
    /\ cache = NoAttribute
    /\ transforms = <<>>
    /\ i = 0
    /\ n_errors = 0
    /\ files = <<>>
    /\ j = 0
    /\ exceptions_ = <<>>
    /\ data_list = <<>>
    /\ f_metadata_list = <<>>
    /\ raised = NoError
    /\ log = <<>>
    /\ op = [name |-> "none", arg |-> <<>>]
    /\ pre = NoSnapshot
    /\ attempts = <<>>
    /\ n_load = 0

(* ------------------------------ logging -------------------------------- *)

\* Variant of warn: the failure is counted but no warning is logged.
warn_silent(lg, k) == lg

\* logger._warn: one warning record (logger.warning + warnings.warn), naming
\* the item it is about.
warn(lg, k) == Append(lg, [level |-> "warning", index |-> k])

\* _logger.info: the progress line of one iteration.
info(lg, k) == Append(lg, [level |-> "info", index |-> k])

\* logger._error: logger.error, then the exception is raised.
error(lg) == Append(lg, [level |-> "error", index |-> 0])

(* --------------------------- construction ------------------------------ *)

\* Variant of init_data_table: the initial table already holds a row.
init_data_table_one_row == << <<"none", 0>> >>

\* PandasIO._init_data_table: pd.DataFrame()
init_data_table == <<>>

\* PandasIO._init_cuts_table: pd.DataFrame()
init_cuts_table == <<>>

\* Variant of DataHandler_init that builds the ledger, the metadata list and
\* the tables first and looks the strategy up last.
DataHandler_init_LookupLast(vs, io, make_cut_bool_table) ==
    /\ pc = "new"
    /\ op' = [name |-> "__init__", arg |-> vs, data_io |-> io]
    /\ pre' = Snapshot
    /\ variables' = vs
    /\ has_cuts_table' = make_cut_bool_table
    /\ t_metadata' = <<>>
    /\ f_metadata' = <<>>
    /\ data_table' = init_data_table
    /\ cuts_table' = init_cuts_table
    /\ IF io \notin plugins
       THEN /\ raised' = Error("OscanaError", io, 0)
            /\ log' = error(<<>>)
            /\ UNCHANGED <<pc, data_io, cache>>
       ELSE /\ raised' = NoError
            /\ log' = <<>>
            /\ pc' = "idle"
            /\ data_io' = io
            /\ cache' = <<>>
    /\ UNCHANGED <<applyFrame, loadFrame, n_load>>

\* DataHandler.__init__(variables, data_io, make_cut_bool_table): the registry
\* lookup and its error come first; then the strategy instance (with its empty
\* cache), the variables, the flag, the ledger, the metadata list and the two
\* tables.
DataHandler_init(vs, io, make_cut_bool_table) ==
    /\ pc = "new"
    /\ op' = [name |-> "__init__", arg |-> vs, data_io |-> io]
    /\ pre' = Snapshot
    /\ IF io \notin plugins
       THEN /\ raised' = Error("OscanaError", io, 0)
            /\ log' = error(<<>>)
            /\ UNCHANGED <<pc, handler>>
       ELSE /\ raised' = NoError
            /\ log' = <<>>
            /\ pc' = "idle"
            /\ data_io' = io
            /\ cache' = <<>>
            /\ variables' = vs
            /\ has_cuts_table' = make_cut_bool_table
            /\ t_metadata' = <<>>
            /\ f_metadata' = <<>>
            /\ data_table' = init_data_table
            /\ cuts_table' = init_cuts_table
    /\ UNCHANGED <<applyFrame, loadFrame, n_load>>

(* -------------------------- apply_transforms --------------------------- *)

\* Variant of add_transform: the entry is inserted at the front.
add_transform_front(ledger, t) == <<(<<t.name, t.kwargs>>)>> \o ledger

\* TransformMetadata._add_transform: append (class name, kwargs).
add_transform(ledger, t) == Append(ledger, <<t.name, t.kwargs>>)

\* Variant of dh_tables: every transform is given the tables as they were when
\* apply_transforms was called.
dh_tables_stale == [table |-> pre.data_table, cuts |-> pre.cuts_table]

\* transform(dh=self): the transform reads the handler's current table and
\* mask.
dh_tables == [table |-> data_table, cuts |-> cuts_table]

\* apply_transforms is called: n_errors = 0, the loop has not started.
ApplyStart(ts) ==
    /\ pc = "idle"
    /\ Len(t_metadata) + Len(ts) <= MaxLedger
    /\ pc' = "apply"
    /\ transforms' = ts
    /\ i' = 0
    /\ n_errors' = 0
    /\ attempts' = <<>>
    /\ raised' = NoError
    /\ log' = <<>>
    /\ op' = [name |-> "apply_transforms", arg |-> ts]
    /\ pre' = Snapshot
    /\ files' = <<>>
    /\ j' = 0
    /\ exceptions_' = <<>>
    /\ data_list' = <<>>
    /\ f_metadata_list' = <<>>
    /\ UNCHANGED <<handler, n_load>>

\* Variant of ApplyStep without the except clause: the transform's exception
\* leaves apply_transforms at once.
ApplyStep_Propagate ==
    /\ pc = "apply"
    /\ i < Len(transforms)
    /\ LET t == transforms[i + 1]
           r == Transform_call(t, data_table, cuts_table)
       IN  /\ attempts' = Append(attempts,
                 [index |-> i + 1, raised |-> r.raised,
                  table |-> data_table, cuts |-> cuts_table])
           /\ IF r.raised
              THEN /\ pc' = "idle"
                   /\ raised' = Error("ZeroDivisionError", t.name, 0)
                   /\ UNCHANGED <<data_table, cuts_table, t_metadata, log,
                                  n_errors>>
              ELSE /\ data_table' = r.table
                   /\ cuts_table' = r.cuts
                   /\ t_metadata' = add_transform(t_metadata, t)
                   /\ log' = info(log, i + 1)
                   /\ UNCHANGED <<n_errors, pc, raised>>
    /\ i' = i + 1
    /\ UNCHANGED <<variables, data_io, has_cuts_table, f_metadata, cache,
                   transforms, loadFrame, op, pre, n_load>>

\* Variant of ApplyStep that enforces idempotence: a transform whose name is
\* already in the ledger is not invoked but counted as a failure.
ApplyStep_Idempotent ==
    /\ pc = "apply"
    /\ i < Len(transforms)
    /\ LET t == transforms[i + 1]
           r == Transform_call(t, dh_tables.table, dh_tables.cuts)
           rejected == \/ r.raised
                       \/ \E k \in 1..Len(t_metadata) : t_metadata[k][1] = t.name
       IN  /\ attempts' = Append(attempts,
                 [index |-> i + 1, raised |-> rejected,
                  table |-> dh_tables.table, cuts |-> dh_tables.cuts])
           /\ IF rejected
              THEN /\ n_errors' = n_errors + 1
                   /\ log' = info(warn(log, i + 1), i + 1)
                   /\ UNCHANGED <<data_table, cuts_table, t_metadata>>
              ELSE /\ data_table' = r.table
                   /\ cuts_table' = r.cuts
                   /\ t_metadata' = add_transform(t_metadata, t)
                   /\ log' = info(log, i + 1)
                   /\ UNCHANGED n_errors
    /\ i' = i + 1
    /\ UNCHANGED <<pc, variables, data_io, has_cuts_table, f_metadata, cache,
                   transforms, loadFrame, raised, op, pre, n_load>>

\* One iteration of the for loop: try / except Exception / else, then the
\* progress line.  attempts records the transform invoked, what it was given
\* and whether it raised.
ApplyStep ==
    /\ pc = "apply"
    /\ i < Len(transforms)
    /\ LET t == transforms[i + 1]
           r == Transform_call(t, dh_tables.table, dh_tables.cuts)
       IN  /\ attempts' = Append(attempts,
                 [index |-> i + 1, raised |-> r.raised,
                  table |-> dh_tables.table, cuts |-> dh_tables.cuts])
           /\ IF r.raised
              THEN /\ n_errors' = n_errors + 1
                   /\ log' = info(warn(log, i + 1), i + 1)
                   /\ UNCHANGED <<data_table, cuts_table, t_metadata>>
              ELSE /\ data_table' = r.table
                   /\ cuts_table' = r.cuts
                   /\ t_metadata' = add_transform(t_metadata, t)
                   /\ log' = info(log, i + 1)
                   /\ UNCHANGED n_errors
    /\ i' = i + 1
    /\ UNCHANGED <<pc, variables, data_io, has_cuts_table, f_metadata, cache,
                   transforms, loadFrame, raised, op, pre, n_load>>

\* Variant of ApplyEnd that restores the tables of before the call when the
\* batch had a failure.
ApplyEnd_Rollback ==
    /\ pc = "apply"
    /\ i = Len(transforms)
    /\ pc' = "idle"
    /\ IF n_errors > 0
       THEN /\ raised' = Error("OscanaError", "Failed to apply", n_errors)
            /\ log' = error(log)
            /\ data_table' = pre.data_table
            /\ cuts_table' = pre.cuts_table
       ELSE /\ raised' = NoError
            /\ UNCHANGED <<log, data_table, cuts_table>>
    /\ UNCHANGED <<variables, data_io, has_cuts_table, t_metadata, f_metadata,
                   cache, applyFrame, loadFrame, op, pre, n_load>>

\* After the loop: the aggregate error when n_errors > 0.
ApplyEnd ==
    /\ pc = "apply"
    /\ i = Len(transforms)
    /\ pc' = "idle"
    /\ IF n_errors > 0
       THEN /\ raised' = Error("OscanaError", "Failed to apply", n_errors)
            /\ log' = error(log)
       ELSE /\ raised' = NoError
            /\ UNCHANGED log
    /\ UNCHANGED <<handler, applyFrame, loadFrame, op, pre, n_load>>

(* ------------------------------ ingestion ------------------------------ *)

\* Variant of get_non_cache_files without the cache test: every file of the
\* call is handed to the loader.
get_non_cache_files_all(c, fs) == fs

\* _get_non_cache_files(cache, files): the files not in the cache, each
\* tested against the cache as it was when the call began.
RECURSIVE get_non_cache_files(_, _)
get_non_cache_files(c, fs) ==
    IF fs = <<>> THEN <<>>
    ELSE IF InSeq(Head(fs), c)
         THEN get_non_cache_files(c, Tail(fs))
         ELSE <<Head(fs)>> \o get_non_cache_files(c, Tail(fs))

\* _get_non_cache_files: cache.extend(non_cache_files)
cache_extend(c, non_cache_files) == c \o non_cache_files

\* DataIOStrategy.from_sntp(files): filter against the cache, return at once
\* when nothing is left, otherwise enter the loader (PandasIO._from_sntp ->
\* hlp_20250205_from_sntp) with its three empty lists.
FromSntpStart(fs) ==
    /\ pc = "idle"
    /\ n_load < MaxLoadCalls
    /\ n_load' = n_load + 1
    /\ op' = [name |-> "from_sntp", arg |-> fs]
    /\ pre' = Snapshot
    /\ raised' = NoError
    /\ log' = <<>>
    /\ LET non_cache_files == get_non_cache_files(cache, fs)
       IN  /\ cache' = cache_extend(cache, non_cache_files)
           /\ files' = non_cache_files
           /\ pc' = IF non_cache_files = <<>> THEN "idle" ELSE "load"
    /\ j' = 0
    /\ exceptions_' = <<>>
    /\ data_list' = <<>>
    /\ f_metadata_list' = <<>>
    /\ transforms' = <<>>
    /\ i' = 0
    /\ n_errors' = 0
    /\ attempts' = <<>>
    /\ UNCHANGED <<variables, data_io, has_cuts_table, t_metadata, f_metadata,
                   data_table, cuts_table>>

\* The metadata comparison of the loader loop: the new file against the last
\* accepted file of this call.
MetadataMismatch(f_meta, accepted) ==
    /\ Len(accepted) > 0
    /\ FileMetadata_ne(f_meta, accepted[Len(accepted)])

\* Variant of LoadStep without the except clause: the exception of a file
\* leaves the loader at once.
LoadStep_Propagate ==
    /\ pc = "load"
    /\ j < Len(files)
    /\ LET r == v1_naive_loader(variables, files[j + 1])
       IN  IF r.raised
           THEN /\ raised' = r.exc
                /\ pc' = "idle"
                /\ UNCHANGED <<exceptions_, data_list, f_metadata_list>>
           ELSE IF MetadataMismatch(r.f_meta, f_metadata_list)
           THEN /\ raised' = Error("OscanaError", "same metadata", 0)
                /\ pc' = "idle"
                /\ UNCHANGED <<exceptions_, data_list, f_metadata_list>>
           ELSE /\ data_list' = Append(data_list, r.data)
                /\ f_metadata_list' = Append(f_metadata_list, r.f_meta)
                /\ UNCHANGED <<exceptions_, raised, pc>>
    /\ j' = j + 1
    /\ UNCHANGED <<handler, files, applyFrame, log, op, pre, n_load>>

\* One iteration of the loader's for loop: load the file, compare its
\* metadata, append to the lists; any exception goes to exceptions_.
LoadStep ==
    /\ pc = "load"
    /\ j < Len(files)
    /\ LET r == v1_naive_loader(variables, files[j + 1])
       IN  IF r.raised
           THEN /\ exceptions_' = Append(exceptions_, r.exc)
                /\ UNCHANGED <<data_list, f_metadata_list>>
           ELSE IF MetadataMismatch(r.f_meta, f_metadata_list)
           THEN /\ exceptions_' = Append(exceptions_,
                      Error("OscanaError", "same metadata", 0))
                /\ UNCHANGED <<data_list, f_metadata_list>>
           ELSE /\ data_list' = Append(data_list, r.data)
                /\ f_metadata_list' = Append(f_metadata_list, r.f_meta)
                /\ UNCHANGED exceptions_
    /\ j' = j + 1
    /\ UNCHANGED <<pc, handler, files, applyFrame, raised, log, op, pre,
                   n_load>>

\* Variant of LoadEnd that merges the files that did load before it raises
\* the aggregate error.
LoadEnd_PartialMerge ==
    /\ pc = "load"
    /\ j = Len(files)
    /\ pc' = "idle"
    /\ data_table' = data_table \o Concat(data_list)
    /\ f_metadata' = f_metadata \o f_metadata_list
    /\ IF Len(exceptions_) > 0
       THEN /\ raised' = Error("OscanaError", "failed to load", 0)
            /\ log' = error(log)
       ELSE /\ raised' = NoError
            /\ UNCHANGED log
    /\ UNCHANGED <<variables, data_io, has_cuts_table, t_metadata, cuts_table,
                   cache, applyFrame, loadFrame, op, pre, n_load>>

\* Variant of LoadEnd that empties the ledger when new rows are merged.
LoadEnd_ResetLedger ==
    /\ pc = "load"
    /\ j = Len(files)
    /\ pc' = "idle"
    /\ IF Len(exceptions_) > 0
       THEN /\ raised' = Error("OscanaError", "failed to load", 0)
            /\ log' = error(log)
            /\ UNCHANGED <<data_table, f_metadata, t_metadata>>
       ELSE /\ raised' = NoError
            /\ data_table' = data_table \o Concat(data_list)
            /\ f_metadata' = f_metadata \o f_metadata_list
            /\ t_metadata' = <<>>
            /\ UNCHANGED log
    /\ UNCHANGED <<variables, data_io, has_cuts_table, cuts_table,
                   cache, applyFrame, loadFrame, op, pre, n_load>>

\* After the loader's loop: the aggregate error when an exception was
\* collected; otherwise the loader returns and PandasIO._from_sntp merges the
\* rows and the metadata into the handler.
LoadEnd ==
    /\ pc = "load"
    /\ j = Len(files)
    /\ pc' = "idle"
    /\ IF Len(exceptions_) > 0
       THEN /\ raised' = Error("OscanaError", "failed to load", 0)
            /\ log' = error(log)
            /\ UNCHANGED <<data_table, f_metadata>>
       ELSE /\ raised' = NoError
            /\ data_table' = data_table \o Concat(data_list)
            /\ f_metadata' = f_metadata \o f_metadata_list
            /\ UNCHANGED log
    /\ UNCHANGED <<variables, data_io, has_cuts_table, t_metadata, cuts_table,
                   cache, applyFrame, loadFrame, op, pre, n_load>>

\* The files whose load succeeds.
Loadable == {f \in Files : ~v1_naive_loader(<<>>, f).raised}

\* Lists without a repeated element.
NoRepeats(s) == \A k, l \in 1..Len(s) : k # l => s[k] # s[l]

\* A handler constructed as DataHandler(["NtpSt/stp.plane"], "PandasIO",
\* False) whose io.from_sntp was then called once for each file of fs, one
\* file per call (fs holds loadable files, none twice).
Constructed(fs) ==
    /\ pc = "idle"
    /\ variables = <<"NtpSt/stp.plane">>
    /\ data_io = "PandasIO"
    /\ has_cuts_table = FALSE
    /\ t_metadata = <<>>
    /\ f_metadata = [k \in 1..Len(fs) |-> FileMeta(fs[k])]
    /\ data_table = init_data_table \o Concat([k \in 1..Len(fs) |-> FileRows(fs[k])])
    /\ cuts_table = init_cuts_table
    /\ cache = fs
    /\ transforms = <<>>
    /\ i = 0
    /\ n_errors = 0
    /\ files = <<>>
    /\ j = 0
    /\ exceptions_ = <<>>
    /\ data_list = <<>>
    /\ f_metadata_list = <<>>
    /\ raised = NoError
    /\ log = <<>>
    /\ op = [name |-> "__init__", arg |-> <<"NtpSt/stp.plane">>,
             data_io |-> "PandasIO"]
    /\ pre = NoSnapshot
    /\ attempts = <<>>
    /\ n_load = Len(fs)

\* Ingestion: a freshly constructed handler and its from_sntp calls.
InitIngest == Constructed(<<>>)

NextIngest ==
    \/ \E fs \in SeqsUpTo(Files, MaxFiles) : FromSntpStart(fs)
    \/ LoadStep
    \/ LoadEnd

SpecIngest == InitIngest /\ [][NextIngest]_vars

\* Transforms: a handler holding some files' rows and its apply_transforms
\* calls.
InitApply ==
    \E fs \in SeqsUpTo(Loadable, MaxFiles) : NoRepeats(fs) /\ Constructed(fs)

NextApply ==
    \/ \E ts \in SeqsUpTo(Transforms, MaxTransforms) : ApplyStart(ts)
    \/ ApplyStep
    \/ ApplyEnd

SpecApply == InitApply /\ [][NextApply]_vars

\* Construction alone, over every argument list.
NextNew ==
    \E vs \in SeqsUpTo(VarNames, MaxVars), io \in StrategyNames,
       b \in BOOLEAN : DataHandler_init(vs, io, b)

SpecNew == InitNew /\ [][NextNew]_vars

(* ------------------ the other source kinds, the writer ----------------- *)

\* A plain function stored as a class attribute and called with keyword
\* arguments only.  Reached through the class (PandasIO._sntp_loader) it
\* receives the keywords alone; reached through the instance
\* (self._udst_loader) it is a bound method, the instance is passed as its
\* first positional parameter and a keyword of that parameter's name is a
\* second value for it: TypeError, the body does not run.
call_keywords(through, params, keywords) ==
    IF through = "instance" /\ params[1] \in keywords
    THEN Error("TypeError", "multiple values", 0)
    ELSE NoError

\* hlp_20250205_from_udst / hlp_20250205_from_hdf5 / hlp_20250205_to_hdf5:
\* the body ends in _error(NotImplementedError, ...).
hlp_not_implemented == Error("NotImplementedError", "not implemented yet", 0)

\* PandasIO._from_udst and PandasIO._from_hdf5: self._udst_loader(variables=
\* ..., files=...) and self._hdf5_loader(variables=..., files=...).
PandasIO_load_unsupported ==
    LET binding == call_keywords("instance", <<"variables", "files">>,
                                 {"variables", "files"})
    IN  IF binding # NoError THEN binding ELSE hlp_not_implemented

\* PandasIO.to_hdf5: self._hdf5_writer(data=..., file_metadata=...,
\* transform_metadata=..., file=...).
PandasIO_to_hdf5 ==
    LET binding == call_keywords("instance",
                       <<"data", "file_metadata", "transform_metadata", "file">>,
                       {"data", "file_metadata", "transform_metadata", "file"})
    IN  IF binding # NoError THEN binding ELSE hlp_not_implemented

\* DataIOStrategy.from_udst / from_hdf5 (kind names which): filter against
\* the cache and extend it, return at once when nothing is left, otherwise
\* call the strategy's loader, whose exception reaches the caller.  The lines
\* that would merge the loader's result are never reached.
FromUnsupported(kind, fs) ==
    /\ pc = "idle"
    /\ n_load < MaxLoadCalls
    /\ n_load' = n_load + 1
    /\ op' = [name |-> kind, arg |-> fs]
    /\ pre' = Snapshot
    /\ LET non_cache_files == get_non_cache_files(cache, fs)
       IN  /\ cache' = cache_extend(cache, non_cache_files)
           /\ IF non_cache_files = <<>>
              THEN /\ raised' = NoError
                   /\ log' = <<>>
              ELSE /\ raised' = PandasIO_load_unsupported
                   /\ log' = IF PandasIO_load_unsupported = hlp_not_implemented
                             THEN error(<<>>) ELSE <<>>
    /\ files' = <<>>
    /\ j' = 0
    /\ exceptions_' = <<>>
    /\ data_list' = <<>>
    /\ f_metadata_list' = <<>>
    /\ UNCHANGED <<pc, variables, data_io, has_cuts_table, t_metadata,
                   f_metadata, data_table, cuts_table, applyFrame>>

\* io.from_udst(files)
FromUdst(fs) == FromUnsupported("from_udst", fs)

\* io.from_hdf5(files)
FromHdf5(fs) == FromUnsupported("from_hdf5", fs)

\* io.to_hdf5(file)
ToHdf5 ==
    /\ pc = "idle"
    /\ n_load < MaxLoadCalls
    /\ n_load' = n_load + 1
    /\ op' = [name |-> "to_hdf5", arg |-> <<>>]
    /\ pre' = Snapshot
    /\ raised' = PandasIO_to_hdf5
    /\ log' = IF PandasIO_to_hdf5 = hlp_not_implemented
              THEN error(<<>>) ELSE <<>>
    /\ files' = <<>>
    /\ j' = 0
    /\ exceptions_' = <<>>
    /\ data_list' = <<>>
    /\ f_metadata_list' = <<>>
    /\ UNCHANGED <<pc, handler, applyFrame>>

\* Every loader and the writer of one strategy, which share its cache.
NextKinds ==
    \/ \E fs \in SeqsUpTo(Files, MaxKindFiles) : FromSntpStart(fs)
    \/ LoadStep
    \/ LoadEnd
    \/ \E fs \in SeqsUpTo(Files, MaxKindFiles) : FromUdst(fs)
    \/ \E fs \in SeqsUpTo(Files, MaxKindFiles) : FromHdf5(fs)
    \/ ToHdf5

SpecKinds == InitIngest /\ [][NextKinds]_vars

(* ------------------------- a handler's lifetime ------------------------ *)

\* print_handler_info and print_metadata read the strategy's descriptors,
\* the flag, the ledger and the metadata list, and write to stdout only.
PrintOp(name) ==
    /\ pc = "idle"
    /\ op' = [name |-> name, arg |-> <<>>]
    /\ pre' = Snapshot
    /\ raised' = NoError
    /\ log' = <<>>
    /\ transforms' = <<>>
    /\ i' = 0
    /\ n_errors' = 0
    /\ attempts' = <<>>
    /\ files' = <<>>
    /\ j' = 0
    /\ exceptions_' = <<>>
    /\ data_list' = <<>>
    /\ f_metadata_list' = <<>>
    /\ UNCHANGED <<pc, handler, n_load>>

\* DataHandler.print_handler_info()
PrintHandlerInfo == PrintOp("print_handler_info")

\* DataHandler.print_metadata()
PrintMetadata == PrintOp("print_metadata")

\* The files and the transforms of the lifetime: one that loads and one that
\* does not, one that succeeds and one that raises.
LifeFiles == {"fA", "fX"}

LifeTransforms == {Double, Broken}

\* A handler from its construction on, through every public operation.
NextLife ==
    \/ \E io \in StrategyNames, b \in BOOLEAN :
           DataHandler_init(<<"NtpSt/stp.plane">>, io, b)
    \/ \E fs \in SeqsUpTo(LifeFiles, MaxLifeList) : FromSntpStart(fs)
    \/ LoadStep
    \/ LoadEnd
    \/ \E ts \in SeqsUpTo(LifeTransforms, MaxLifeList) : ApplyStart(ts)
    \/ ApplyStep
    \/ ApplyEnd
    \/ PrintHandlerInfo
    \/ PrintMetadata

SpecLife == InitNew /\ [][NextLife]_vars

(* ---------------------- functions called on their own ------------------ *)

\* A function of the library is about to be called with the arguments args;
\* there is no handler.
InitCall(args) ==
    /\ pc = "call"
    /\ variables = NoAttribute
    /\ data_io = NoAttribute
    /\ has_cuts_table = NoAttribute
    /\ t_metadata = NoAttribute
    /\ f_metadata = NoAttribute
    /\ data_table = NoAttribute
    /\ cuts_table = NoAttribute
    /\ cache = NoAttribute
    /\ transforms = <<>>
    /\ i = 0
    /\ n_errors = 0
    /\ files = <<>>
    /\ j = 0
    /\ exceptions_ = <<>>
    /\ data_list = <<>>
    /\ f_metadata_list = <<>>
    /\ raised = NoError
    /\ log = <<>>
    /\ op = [name |-> "none", arg |-> args]
    /\ pre = NoSnapshot
    /\ attempts = <<>>
    /\ n_load = 0

\* The value of op.ret when the function raised.
NoValue == "no value"

\* The function called returns ret.
Return(name, ret) ==
    /\ pc = "call"
    /\ pc' = "return"
    /\ op' = [name |-> name, arg |-> op.arg, ret |-> ret]
    /\ raised' = NoError
    /\ UNCHANGED <<handler, applyFrame, loadFrame, log, pre, n_load>>

\* The function called raises exc through logger._error.
Raise(name, exc) ==
    /\ pc = "call"
    /\ pc' = "return"
    /\ op' = [name |-> name, arg |-> op.arg, ret |-> NoValue]
    /\ raised' = exc
    /\ log' = error(log)
    /\ UNCHANGED <<handler, applyFrame, loadFrame, pre, n_load>>

\* The function called raises exc without logging (an exception of the
\* interpreter, not one made by logger._error).
RaiseUnlogged(name, exc) ==
    /\ pc = "call"
    /\ pc' = "return"
    /\ op' = [name |-> name, arg |-> op.arg, ret |-> NoValue]
    /\ raised' = exc
    /\ UNCHANGED <<handler, applyFrame, loadFrame, log, pre, n_load>>

\* The call of the function `name` is over (it returned or raised).
Called(name) == pc = "return" /\ op.name = name

(* ------------------------ strings (Python str) ------------------------- *)

\* A str is the sequence of its characters.

\* str.lower of one character (the capitals the model's names use).
lower_char(c) ==
    CASE c = "L" -> "l"
      [] c = "P" -> "p"
      [] c = "C" -> "c"
      [] OTHER   -> c

\* str.lower
str_lower(s) == [k \in 1..Len(s) |-> lower_char(s[k])]

\* str.startswith
str_startswith(s, prefix) ==
    /\ Len(s) >= Len(prefix)
    /\ SubSeq(s, 1, Len(prefix)) = prefix

\* The positions at which sep occurs in s.
Occurrences(s, sep) ==
    {k \in 1..(Len(s) - Len(sep) + 1) : SubSeq(s, k, k + Len(sep) - 1) = sep}

\* str.split(sep): the fields between the occurrences of sep, left to right.
RECURSIVE str_split(_, _)
str_split(s, sep) ==
    IF Occurrences(s, sep) = {}
    THEN <<s>>
    ELSE LET k == CHOOSE m \in Occurrences(s, sep) :
                      \A n \in Occurrences(s, sep) : m <= n
         IN  <<SubSeq(s, 1, k - 1)>>
                 \o str_split(SubSeq(s, k + Len(sep), Len(s)), sep)

\* sep.join(parts)
RECURSIVE str_join(_, _)
str_join(sep, parts) ==
    IF parts = <<>> THEN <<>>
    ELSE IF Len(parts) = 1 THEN parts[1]
    ELSE parts[1] \o sep \o str_join(sep, Tail(parts))

\* Python list slice parts[n:]
slice_from(parts, n) == SubSeq(parts, n + 1, Len(parts))

(* --------------------------- ledger equality --------------------------- *)

\* Class names of transforms, as the ledger records them:
\*   cut_1_low, cut_2_low : the same transform in two dated versions
\*   cut_1_Low            : the same, spelt with a capital
\*   cut_1_low_x          : another transform, its own name has an underscore
\*   Plain                : a class not named after the convention
cut_1_low == <<"c", "u", "t", "_", "1", "_", "l", "o", "w">>

cut_2_low == <<"c", "u", "t", "_", "2", "_", "l", "o", "w">>

cut_1_Low == <<"c", "u", "t", "_", "1", "_", "L", "o", "w">>

cut_1_low_x == <<"c", "u", "t", "_", "1", "_", "l", "o", "w", "_", "x">>

Plain == <<"P", "l", "a", "i", "n">>

ClassNames == {cut_1_low, cut_2_low, cut_1_Low, cut_1_low_x, Plain}

\* Ledger entries (class name, kwargs): every class without parameters, and
\* cut_1_low also with a parameter.
LedgerEntries ==
    {<<n, <<>>>> : n \in ClassNames} \cup {<<cut_1_low, << <<"min", 2>> >> >>}

\* The ledgers compared.
Ledgers == SeqsUpTo(LedgerEntries, MaxEntries)

\* Variant of extract_transform_name that drops the kind only and keeps the
\* date.
extract_transform_name_dated(name) ==
    str_lower(str_join(<<"_">>, slice_from(str_split(name, <<"_">>), 1)))

\* TransformMetadata._extract_transform_name:
\* "_".join(name.split("_")[2:]).lower()
extract_transform_name(name) ==
    str_lower(str_join(<<"_">>, slice_from(str_split(name, <<"_">>), 2)))

\* Variant of TransformMetadata_eq that compares the lists of extracted names
\* instead of their sets.
TransformMetadata_eq_lists(this, value) ==
    [k \in 1..Len(this) |-> extract_transform_name(this[k][1])]
        = [k \in 1..Len(value) |-> extract_transform_name(value[k][1])]

\* TransformMetadata.__eq__ on two ledgers: the sets of the extracted names
\* are equal.
TransformMetadata_eq(this, value) ==
    {extract_transform_name(this[k][1]) : k \in 1..Len(this)}
        = {extract_transform_name(value[k][1]) : k \in 1..Len(value)}

\* TransformMetadata.__ne__
TransformMetadata_ne(this, value) == ~TransformMetadata_eq(this, value)

\* a == b is evaluated.
TransformMetadata_eq_call ==
    Return("TransformMetadata.__eq__",
           TransformMetadata_eq(op.arg[1], op.arg[2]))

\* a != b is evaluated.
TransformMetadata_ne_call ==
    Return("TransformMetadata.__ne__",
           TransformMetadata_ne(op.arg[1], op.arg[2]))

\* Ledger comparison over every pair of ledgers.
InitLedgerEq == \E a, b \in Ledgers : InitCall(<<a, b>>)

NextLedgerEq ==
    \/ TransformMetadata_eq_call
    \/ TransformMetadata_ne_call

SpecLedgerEq == InitLedgerEq /\ [][NextLedgerEq]_vars

(* --------------------- File Metadata compatibility --------------------- *)

\* The fields of the FileMetadata dataclass.
FieldNames ==
    {"file_name", "file_format", "file_type", "experiment", "detector",
     "interaction", "flavour", "mag_field", "horn_pos", "tgt_z_shift",
     "current_sign", "current", "run_number", "mc_version", "reco_version",
     "start_time", "end_time", "n_records", "create_time"}

\* The places in which two File Metadata can differ: the fields, the two
\* version pairs counting as two places each (family and number).
Places ==
    (FieldNames \ {"mc_version", "reco_version"})
        \cup {"mc_family", "mc_number", "reco_family", "reco_number"}

\* The metadata of file fA with another value in every place of D.
Variant(D) ==
    LET ref == FileMeta("fA")
        pick(place, other) == IF place \in D THEN other ELSE ref[place]
    IN  [file_name    |-> pick("file_name", "fZ"),
         file_format  |-> pick("file_format", "hdf5"),
         file_type    |-> pick("file_type", "Data"),
         experiment   |-> pick("experiment", "NOvA"),
         detector     |-> pick("detector", "Far"),
         interaction  |-> pick("interaction", 2),
         flavour      |-> pick("flavour", 4),
         mag_field    |-> pick("mag_field", 2),
         horn_pos     |-> pick("horn_pos", "H"),
         tgt_z_shift  |-> pick("tgt_z_shift", 100),
         current_sign |-> pick("current_sign", "R"),
         current      |-> pick("current", 200),
         run_number   |-> pick("run_number", 1002),
         mc_version   |->
             <<IF "mc_family" \in D THEN "C" ELSE ref.mc_version[1],
               IF "mc_number" \in D THEN 5 ELSE ref.mc_version[2]>>,
         reco_version |->
             <<IF "reco_family" \in D THEN "cedar" ELSE ref.reco_version[1],
               IF "reco_number" \in D THEN 2 ELSE ref.reco_version[2]>>,
         start_time   |-> pick("start_time", 5),
         end_time     |-> pick("end_time", 9),
         n_records    |-> pick("n_records", 7),
         create_time  |-> pick("create_time", 3)]

\* The File Metadata compared: those within MaxDiff places of fA's.
Metas == {Variant(D) : D \in {E \in SUBSET Places : Cardinality(E) <= MaxDiff}}

\* a == b is evaluated.
FileMetadata_eq_call ==
    Return("FileMetadata.__eq__", FileMetadata_eq(op.arg[1], op.arg[2]))

\* a != b is evaluated.
FileMetadata_ne_call ==
    Return("FileMetadata.__ne__", FileMetadata_ne(op.arg[1], op.arg[2]))

\* The compatibility test over every pair of File Metadata.
InitFileEq == \E a, b \in Metas : InitCall(<<a, b>>)

NextFileEq ==
    \/ FileMetadata_eq_call
    \/ FileMetadata_ne_call

SpecFileEq == InitFileEq /\ [][NextFileEq]_vars

(* ------------------- resolving a file identifier ----------------------- *)

\* Values the '.env' file may give a key (strings, as character sequences):
\*   /d/a     an absolute POSIX path
\*   d/a      a relative path
\*   C://d/a  a Windows path written the way _apply_wsl_prefix expects
\*   C:/d/a   the same Windows path written with one slash
path_abs == <<"/", "d", "/", "a">>

path_rel == <<"d", "/", "a">>

path_win2 == <<"C", ":", "/", "/", "d", "/", "a">>

path_win1 == <<"C", ":", "/", "d", "/", "a">>

EnvValues == {path_abs, path_rel, path_win2, path_win1}

\* Keys of the environment, which are the file identifiers.
EnvKeys == {"FILE_A", "FILE_B"}

\* os.environ: some of the keys, each with a value.
Environs == UNION {[D -> EnvValues] : D \in SUBSET EnvKeys}

\* platform.system()
Platforms == {"Linux", "Windows"}

\* The working directory of the process.
cwd(platform) ==
    IF platform = "Linux" THEN <<"/", "w">> ELSE <<"C", ":", "/", "w">>

\* Whether pathlib takes the path for absolute on the platform.
is_absolute(platform, s) ==
    IF platform = "Linux"
    THEN str_startswith(s, <<"/">>)
    ELSE str_startswith(s, <<"C", ":", "/">>)

\* pathlib drops a separator that follows a separator.
RECURSIVE collapse(_)
collapse(s) ==
    IF Len(s) < 2 THEN s
    ELSE IF s[1] = "/" /\ s[2] = "/" THEN collapse(Tail(s))
    ELSE <<s[1]>> \o collapse(Tail(s))

\* Path(s).resolve(): the normalised absolute path, a relative one taken
\* from the working directory.
Path_resolve(platform, s) ==
    IF is_absolute(platform, s)
    THEN collapse(s)
    ELSE collapse(cwd(platform) \o <<"/">> \o s)

\* The paths the resolution can produce; the disk holds some of them.
DiskPaths ==
    {Path_resolve(pf, v) : pf \in Platforms, v \in EnvValues}
        \cup {<<"/", "m", "n", "t", "/", "c", "/", "d", "/", "a">>}

\* _apply_wsl_prefix(dir_): on Linux a value that starts with "C:" is split
\* at "://" and rebuilt under /mnt/<drive>/; dir_split[1] does not exist when
\* the value has no "://" (IndexError).  Any other value is resolved as is.
apply_wsl_prefix(platform, dir_) ==
    IF platform = "Linux" /\ str_startswith(dir_, <<"C", ":">>)
    THEN LET dir_split == str_split(dir_, <<":", "/", "/">>)
         IN  IF Len(dir_split) < 2
             THEN [raised |-> TRUE,
                   exc |-> Error("IndexError", "list index out of range", 0),
                   path |-> <<>>]
             ELSE [raised |-> FALSE,
                   exc |-> NoError,
                   path |-> Path_resolve(platform,
                                <<"/", "m", "n", "t", "/">>
                                    \o <<lower_char(dir_split[1][1])>>
                                    \o <<"/">> \o dir_split[2])]
    ELSE [raised |-> FALSE, exc |-> NoError,
          path |-> Path_resolve(platform, dir_)]

\* _get_dir_from_env(file) in the environment environ, with the paths of disk
\* existing: the resolved path, or the exception raised.
get_dir_from_env(file, environ, disk, platform) ==
    IF file \in DOMAIN environ
    THEN LET prefixed == apply_wsl_prefix(platform, environ[file])
             file_path_resolved == Path_resolve(platform, prefixed.path)
         IN  IF prefixed.raised
             THEN [raised |-> TRUE, exc |-> prefixed.exc, logged |-> FALSE,
                   path |-> <<>>]
             ELSE IF file_path_resolved \in disk
             THEN [raised |-> FALSE, exc |-> NoError, logged |-> FALSE,
                   path |-> file_path_resolved]
             ELSE [raised |-> TRUE,
                   exc |-> Error("FileNotFoundError", file, 0),
                   logged |-> TRUE, path |-> <<>>]
    ELSE [raised |-> TRUE, exc |-> Error("OscanaError", file, 0),
          logged |-> TRUE, path |-> <<>>]

\* _get_dir_from_env(file) is called.
get_dir_from_env_call ==
    LET a == op.arg
        r == get_dir_from_env(a.file, a.environ, a.disk, a.platform)
    IN  IF ~r.raised THEN Return("_get_dir_from_env", r.path)
        ELSE IF r.logged THEN Raise("_get_dir_from_env", r.exc)
        ELSE RaiseUnlogged("_get_dir_from_env", r.exc)

\* Resolution over every key, environment, disk content and platform.
InitEnv ==
    \E file \in EnvKeys, environ \in Environs, disk \in SUBSET DiskPaths,
       platform \in Platforms :
        InitCall([file |-> file, environ |-> environ, disk |-> disk,
                  platform |-> platform])

NextEnv == get_dir_from_env_call

SpecEnv == InitEnv /\ [][NextEnv]_vars

(* ------------------ File Metadata from a file name --------------------- *)

\* Number of parts in which a generated file name departs from the
\* reference name.
MaxNameEdits == 1

Digits == {"0", "1", "2", "3", "4", "5", "6", "7", "8", "9"}

digit_value(c) ==
    CASE c = "0" -> 0 [] c = "1" -> 1 [] c = "2" -> 2 [] c = "3" -> 3
      [] c = "4" -> 4 [] c = "5" -> 5 [] c = "6" -> 6 [] c = "7" -> 7
      [] c = "8" -> 8 [] c = "9" -> 9

\* int(text) of a text of decimal digits
RECURSIVE int_of(_)
int_of(ds) ==
    IF ds = <<>> THEN 0
    ELSE 10 * int_of(SubSeq(ds, 1, Len(ds) - 1)) + digit_value(ds[Len(ds)])

\* float(text) of "digits.digits": the whole part and the fraction digits
\* without trailing zeros (3.10 and 3.1 are the same float).
RECURSIVE strip_zeros(_)
strip_zeros(ds) ==
    IF ds # <<>> /\ ds[Len(ds)] = "0"
    THEN strip_zeros(SubSeq(ds, 1, Len(ds) - 1))
    ELSE ds

float_of(whole, frac) == <<int_of(whole), strip_zeros(frac)>>

\* The characters m..n of s; nothing when s is too short.
sub(s, m, n) == IF m <= n /\ n <= Len(s) THEN SubSeq(s, m, n) ELSE <<>>

\* Length of the run of digits of s that starts at position from (\d+ is
\* greedy, and what follows it in the pattern is never a digit).
RECURSIVE digits_run(_, _)
digits_run(s, from) ==
    IF from <= Len(s) /\ s[from] \in Digits
    THEN 1 + digits_run(s, from + 1)
    ELSE 0

w_sntp == <<"s", "n", "t", "p">>
w_cand == <<"c", "a", "n", "d">>
w_mrnt == <<"m", "r", "n", "t">>
w_ash == <<"a", "s", "h">>
w_birch == <<"b", "i", "r", "c", "h">>
w_dogwood == <<"d", "o", "g", "w", "o", "o", "d">>
w_cedar == <<"c", "e", "d", "a", "r">>
w_root == <<"r", "o", "o", "t">>
w_h5 == <<"h", "5">>
w_txt == <<"t", "x", "t">>

\* No match of the pattern (re.match returned None).
NoMatch == [matched |-> FALSE]

\* The fixed-width groups at the start of _daikon_regex, up to the "r"
\* before the beam-flux run number: s matches them.
re_head_daikon(s) ==
    /\ Len(s) >= 29
    /\ sub(s, 1, 2) \in {<<"n", "1">>, <<"f", "2">>, <<"F", "2">>}
    /\ s[3] \in {"0", "1", "2", "3", "4", "5"}
    /\ s[4] \in {"0", "1", "2", "3", "4", "9"}
    /\ s[5] \in {"0", "1", "2", "3", "4"}
    /\ s[6] \in Digits \ {"0"}
    /\ \A k \in 7..9 : s[k] \in Digits
    /\ s[10] = "_"
    /\ \A k \in 11..14 : s[k] \in Digits
    /\ s[15] = "_"
    /\ s[16] \in {"L", "M", "H"}
    /\ sub(s, 17, 19) \in {<<"0", "0", "0">>, <<"0", "1", "0">>,
                           <<"1", "0", "0">>, <<"1", "5", "0">>,
                           <<"2", "5", "0">>}
    /\ sub(s, 20, 22) \in {<<"0", "0", "0">>, <<"1", "7", "0">>,
                           <<"1", "8", "5">>, <<"2", "0", "0">>}
    /\ s[23] \in {"N", "R"}
    /\ s[24] = "_"
    /\ s[25] \in {"A", "B", "C", "D"}
    /\ \/ s[26] = "0" /\ s[27] \in Digits \ {"0"}
       \/ s[26] = "1" /\ s[27] \in Digits
    /\ s[28] = "_"
    /\ s[29] = "r"

\* The alternative of (ash|birch|dogwood) that s has at position p, or
\* nothing.
wod_at(s, p) ==
    IF sub(s, p, p + 2) = w_ash THEN w_ash
    ELSE IF sub(s, p, p + 4) = w_birch THEN w_birch
    ELSE IF sub(s, p, p + 6) = w_dogwood THEN w_dogwood
    ELSE <<>>

\* The rest of _daikon_regex after the beam-flux run number, which ends
\* before position p1: the file type between two dots, the release wood
\* wod, and the release version of nw digits, a dot and nf digits from
\* position p4 on.
re_tail_daikon(s, p1, wod, p4, nw, nf) ==
    IF ~(/\ re_head_daikon(s)
         /\ p1 > 30
         /\ sub(s, p1, p1) = <<".">>
         /\ sub(s, p1 + 1, p1 + 4) \in {w_sntp, w_cand, w_mrnt}
         /\ sub(s, p1 + 5, p1 + 5) = <<".">>
         /\ wod # <<>>
         /\ nw >= 1
         /\ sub(s, p4 + nw, p4 + nw) = <<".">>
         /\ nf >= 1)
    THEN NoMatch
    ELSE [matched |-> TRUE,
          det |-> sub(s, 1, 2), int |-> <<s[3]>>, flr |-> <<s[4]>>,
          fld |-> <<s[5]>>, run |-> sub(s, 6, 9), sun |-> sub(s, 11, 14),
          pos |-> s[16], zst |-> sub(s, 17, 19), cur |-> sub(s, 20, 22),
          sgn |-> s[23], veg |-> s[25], ver |-> sub(s, 26, 27),
          bfr |-> sub(s, 30, p1 - 1), flt |-> sub(s, p1 + 1, p1 + 4),
          wod |-> wod,
          wer |-> <<sub(s, p4, p4 + nw - 1),
                    sub(s, p4 + nw + 1, p4 + nw + nf)>>]

\* The release version is looked for after the release wood.
re_wer_daikon(s, p1, wod, p4) ==
    re_tail_daikon(s, p1, wod, p4, digits_run(s, p4),
                   digits_run(s, p4 + digits_run(s, p4) + 1))

\* The release wood is looked for six characters after the beam-flux run
\* number (".sntp." lies between).
re_wod_daikon(s, p1) ==
    re_wer_daikon(s, p1, wod_at(s, p1 + 6), p1 + 6 + Len(wod_at(s, p1 + 6)))

\* re.match(_daikon_regex, s): the groups of the match, which is anchored
\* at the start of s and may leave a rest.
re_match_daikon(s) == re_wod_daikon(s, 30 + digits_run(s, 30))

\* EFileFormat(value): _missing_ gives UNKNOWN.
EFileFormat(value) ==
    IF value = w_root THEN "root"
    ELSE IF value = w_h5 THEN "h5"
    ELSE "????"

\* The values of EDaikonFlavour; the class has no _missing_, so calling it
\* with another value raises ValueError.
EDaikonFlavour_values == {0, 1, 3, 4, 9}

\* _daikon_key_map
daikon_key_map(det) ==
    IF det = <<"n", "1">> THEN <<"Near", "MC">>
    ELSE IF det = <<"f", "2">> THEN <<"Far", "MC">>
    ELSE <<"Far", "Unknown">>

\* Outcomes of the functions below: a value, None, or an exception.
Value(v) == [kind |-> "value", value |-> v]
None == [kind |-> "None"]
Raised(type, logged) == [kind |-> "raise", type |-> type, logged |-> logged]

\* _parse_file_name_spill_daikon
parse_file_name_spill_daikon(file_name) ==
    LET result      == re_match_daikon(file_name)
        parts       == str_split(file_name, <<".">>)
        file_format == EFileFormat(parts[Len(parts)])
    IN  IF ~result.matched \/ file_format = "????" THEN None
        ELSE IF int_of(result.flr) \notin EDaikonFlavour_values
        THEN Raised("ValueError", FALSE)
        ELSE Value(
            [file_name    |-> file_name,
             file_format  |-> file_format,
             file_type    |-> daikon_key_map(result.det)[2],
             experiment   |-> "MINOS",
             detector     |-> daikon_key_map(result.det)[1],
             interaction  |-> int_of(result.int),
             flavour      |-> int_of(result.flr),
             mag_field    |-> int_of(result.fld),
             horn_pos     |-> result.pos,
             tgt_z_shift  |-> int_of(result.zst),
             current_sign |-> result.sgn,
             current      |-> int_of(result.cur),
             run_number   |-> int_of(result.bfr),
             mc_version   |-> <<result.veg, int_of(result.ver)>>,
             reco_version |-> <<result.wod,
                                float_of(result.wer[1], result.wer[2])>>])

\* _convert_from_utc: the datetime of each timestamp, seconds after the
\* epoch 1970-01-01T00:00:00.
convert_from_utc(utc_timestamps) ==
    [k \in 1..Len(utc_timestamps) |->
        [epoch |-> 1970, seconds |-> utc_timestamps[k]]]

\* np.min / np.max of a non-empty array of datetimes
np_min(a) ==
    CHOOSE x \in {a[k] : k \in 1..Len(a)} :
        \A k \in 1..Len(a) : x.seconds <= a[k].seconds

np_max(a) ==
    CHOOSE x \in {a[k] : k \in 1..Len(a)} :
        \A k \in 1..Len(a) : x.seconds >= a[k].seconds

\* An opened file: whether it has the NtpSt tree, and that tree's columns of
\* event timestamps and of run numbers (one value per row).
OpenFiles ==
    {[has_ntpst |-> FALSE, utc |-> <<>>, run |-> <<>>],
     [has_ntpst |-> TRUE, utc |-> <<>>, run |-> <<>>],
     [has_ntpst |-> TRUE, utc |-> <<7, 5>>, run |-> <<1, 1>>],
     [has_ntpst |-> TRUE, utc |-> <<7, 5>>, run |-> <<1001, 1001>>],
     [has_ntpst |-> TRUE, utc |-> <<7, 5, 6>>, run |-> <<12, 1, 12>>]}

\* from_daikon_sntp
from_daikon_sntp(file_name, file) ==
    IF ~file.has_ntpst THEN Raised("KeyError", FALSE)
    ELSE IF file.utc = <<>> THEN Raised("ValueError", FALSE)
    ELSE LET time_array       == convert_from_utc(file.utc)
             parsed_file_name == parse_file_name_spill_daikon(file_name)
         IN  IF parsed_file_name.kind # "value" THEN parsed_file_name
             ELSE Value(
                 [f \in FieldNames |->
                     IF f = "start_time" THEN np_min(time_array)
                     ELSE IF f = "end_time" THEN np_max(time_array)
                     ELSE IF f = "n_records" THEN Len(time_array)
                     ELSE IF f = "create_time" THEN 0
                     ELSE parsed_file_name.value[f]])

\* Variant of FileMetadata.from_sntp that hands on what from_daikon_sntp
\* gave it, None included.
FileMetadata_from_sntp_unchecked(file_name, file) ==
    from_daikon_sntp(file_name, file)

\* FileMetadata.from_sntp
FileMetadata_from_sntp(file_name, file) ==
    LET daikon == from_daikon_sntp(file_name, file)
    IN  IF daikon.kind = "None" THEN Raised("OscanaError", TRUE)
        ELSE daikon

\* The parts of a file name, in order, each with the texts the generated
\* names put there; the first text of each part is the reference name's.
NameParts ==
    << <<<<"n", "1">>, <<"F", "2">>, <<"x", "1">>>>,
       <<<<"3">>, <<"7">>>>,
       <<<<"0">>, <<"2">>, <<"5">>>>,
       <<<<"1">>, <<"9">>>>,
       <<<<"1", "0", "0", "1">>, <<"0", "0", "0", "1">>>>,
       <<<<"_">>, <<"-">>>>,
       <<<<"0", "0", "0", "0">>, <<"0", "0", "0">>>>,
       <<<<"_">>>>,
       <<<<"L">>, <<"X">>>>,
       <<<<"0", "1", "0">>, <<"0", "2", "0">>>>,
       <<<<"1", "8", "5">>, <<"9", "9", "9">>>>,
       <<<<"N">>, <<"R">>, <<"n">>>>,
       <<<<"_">>>>,
       <<<<"D">>, <<"E">>>>,
       <<<<"0", "7">>, <<"0", "0">>, <<"1", "0">>>>,
       <<<<"_", "r">>, <<"_">>>>,
       <<<<"1">>, <<"1", "2">>, <<>>>>,
       <<<<".">>>>,
       <<w_sntp, w_mrnt, <<"x", "x", "x", "x">>>>,
       <<<<".">>>>,
       <<w_dogwood, w_ash, w_cedar>>,
       <<<<"3", ".", "1", "0">>, <<"3">>, <<"3", ".">>>>,
       <<<<".">> \o w_root, <<".">> \o w_h5, <<".">> \o w_txt, <<>>>> >>

\* The texts made of the parts p, p+1, ... that depart from the reference
\* name in at most k parts.
RECURSIVE NamesFrom(_, _)
NamesFrom(p, k) ==
    IF p > Len(NameParts) THEN {<<>>}
    ELSE {NameParts[p][1] \o r : r \in NamesFrom(p + 1, k)}
         \cup (IF k = 0 THEN {}
               ELSE UNION {{NameParts[p][a] \o r : r \in NamesFrom(p + 1, k - 1)} :
                              a \in 2..Len(NameParts[p])})

FileNames == NamesFrom(1, MaxNameEdits)

\* FileMetadata.from_sntp(file_name, file) is called.
FileMetadata_from_sntp_call ==
    LET r == FileMetadata_from_sntp(op.arg[1], op.arg[2])
    IN  IF r.kind # "raise"
        THEN Return("FileMetadata.from_sntp", IF r.kind = "value" THEN r.value ELSE r)
        ELSE IF r.logged
        THEN Raise("FileMetadata.from_sntp",
                   Error(r.type, "does not match any known SNTP format", 0))
        ELSE RaiseUnlogged("FileMetadata.from_sntp",
                           Error(r.type, "raised by a callee", 0))

InitFromName == \E n \in FileNames, f \in OpenFiles : InitCall(<<n, f>>)

NextFromName == FileMetadata_from_sntp_call

SpecFromName == InitFromName /\ [][NextFromName]_vars

(* --------------------------- import_plugins ---------------------------- *)

\* Number of module files in the plugins directory.
MaxModules == 2

\* Modules a plugins directory may hold: whether the module defines __all__,
\* the names __all__ lists, and the names the module defines.
PluginModules ==
    {[stem |-> "helpers", has_all |-> FALSE, all |-> <<>>,
      attrs |-> {"helper"}],
     [stem |-> "pandas_io", has_all |-> TRUE, all |-> <<"PandasIO">>,
      attrs |-> {"PandasIO", "hlp_lookup"}],
     [stem |-> "other_io", has_all |-> TRUE, all |-> <<"OtherIO", "PandasIO">>,
      attrs |-> {"OtherIO", "PandasIO"}],
     [stem |-> "empty_io", has_all |-> TRUE, all |-> <<>>,
      attrs |-> {"EmptyIO"}],
     [stem |-> "ghost_io", has_all |-> TRUE, all |-> <<"GhostIO">>,
      attrs |-> {}]}

\* The orders in which plugins_dir.glob("*.py") may yield the files of a
\* directory: no file twice.
ModuleScans ==
    {ms \in SeqsUpTo(PluginModules, MaxModules) :
        \A a, b \in 1..Len(ms) : a # b => ms[a] # ms[b]}

\* getattr(module, name): the object of that name in that module.
getattr(module, name) == <<module.stem, name>>

\* { name: getattr(module, name) for name in module.__all__ }; getattr
\* raises AttributeError for a name the module does not define.
exports_of(module) ==
    IF \E k \in 1..Len(module.all) : module.all[k] \notin module.attrs
    THEN Raised("AttributeError", FALSE)
    ELSE Value([name \in {module.all[k] : k \in 1..Len(module.all)} |->
                   getattr(module, name)])

\* Variant of the loop of import_plugins that goes on after a module with
\* an export list and adds the exports of the later modules.
RECURSIVE import_plugins_scan_all(_)
import_plugins_scan_all(modules) ==
    IF modules = <<>> THEN Value(<<>>)
    ELSE LET first == IF Head(modules).has_all THEN exports_of(Head(modules))
                      ELSE Value(<<>>)
             rest  == import_plugins_scan_all(Tail(modules))
         IN  IF first.kind = "raise" THEN first
             ELSE IF rest.kind = "raise" THEN rest
             ELSE Value([name \in DOMAIN first.value \cup DOMAIN rest.value |->
                            IF name \in DOMAIN first.value
                            THEN first.value[name]
                            ELSE rest.value[name]])

\* The loop of import_plugins over the module files, in scan order.
RECURSIVE import_plugins_scan(_)
import_plugins_scan(modules) ==
    IF modules = <<>> THEN Value(<<>>)
    ELSE IF Head(modules).has_all THEN exports_of(Head(modules))
    ELSE import_plugins_scan(Tail(modules))

\* import_plugins(file), for a package directory that is in 'oscana' or is
\* not, and has a plugins directory or has none.
import_plugins(in_oscana, has_plugins_dir, modules) ==
    IF ~in_oscana THEN Raised("OscanaError", TRUE)
    ELSE IF ~has_plugins_dir THEN Raised("FileNotFoundError", TRUE)
    ELSE import_plugins_scan(modules)

\* import_plugins(file=__file__) is called.
import_plugins_call ==
    LET r == import_plugins(op.arg.in_oscana, op.arg.has_plugins_dir,
                            op.arg.modules)
    IN  IF r.kind = "value" THEN Return("import_plugins", r.value)
        ELSE IF r.logged
        THEN Raise("import_plugins", Error(r.type, "plug-in support", 0))
        ELSE RaiseUnlogged("import_plugins", Error(r.type, "raised by a callee", 0))

InitPlugins ==
    \E a, b \in BOOLEAN, ms \in ModuleScans :
        /\ (~b => ms = <<>>)
        /\ InitCall([in_oscana |-> a, has_plugins_dir |-> b, modules |-> ms])

NextPlugins == import_plugins_call

SpecPlugins == InitPlugins /\ [][NextPlugins]_vars

(* --------------------------- get_func_lookup --------------------------- *)

\* Number of names in the globals handed to get_func_lookup.
MaxFuncs == 3

\* The characters of the names, in the order of their code points.
Alphabet ==
    <<"0", "1", "2", "3", "4", "5", "6", "7", "8", "9", "_",
      "a", "b", "c", "d", "e", "f", "g", "h", "i", "j", "k", "l", "m",
      "n", "o", "p", "q", "r", "s", "t", "u", "v", "w", "x", "y", "z">>

ord(c) == CHOOSE k \in 1..Len(Alphabet) : Alphabet[k] = c

\* a < b for two str (what sorted() compares).
RECURSIVE str_less(_, _)
str_less(a, b) ==
    IF b = <<>> THEN FALSE
    ELSE IF a = <<>> THEN TRUE
    ELSE IF Head(a) # Head(b) THEN ord(Head(a)) < ord(Head(b))
    ELSE str_less(Tail(a), Tail(b))

\* str.endswith
str_endswith(s, suffix) ==
    /\ Len(s) >= Len(suffix)
    /\ SubSeq(s, Len(s) - Len(suffix) + 1, Len(s)) = suffix

w_hlp_ == <<"h", "l", "p", "_">>
w_from_sntp == <<"f", "r", "o", "m", "_", "s", "n", "t", "p">>
w_from_udst == <<"f", "r", "o", "m", "_", "u", "d", "s", "t">>
w_to_hdf5 == <<"t", "o", "_", "h", "d", "f", "5">>
d_20250205 == <<"2", "0", "2", "5", "0", "2", "0", "5">>
d_20250301 == <<"2", "0", "2", "5", "0", "3", "0", "1">>
d_20250401 == <<"2", "0", "2", "5", "0", "4", "0", "1">>

\* Names a module's globals may hold.
GlobalNames ==
    {w_hlp_ \o d_20250205 \o <<"_">> \o w_from_sntp,
     w_hlp_ \o d_20250301 \o <<"_">> \o w_from_sntp,
     w_hlp_ \o d_20250401 \o <<"_", "n", "o", "t", "_">> \o w_from_sntp,
     w_hlp_ \o d_20250205 \o <<"_">> \o w_to_hdf5,
     <<"c", "u", "t", "_">> \o d_20250401 \o <<"_">> \o w_from_sntp,
     <<"p", "d">>}

\* globals(): the names defined, each bound to its own object.
GlobalsSets == {g \in SUBSET GlobalNames : Cardinality(g) <= MaxFuncs}

thing(name) == [defined_as |-> name]

\* The dict funcs that get_func_lookup keeps: the names with the prefix.
funcs_of(globals_, prefix) == {name \in globals_ : str_startswith(name, prefix)}

\* sorted(names)[-1]
sorted_last(names) ==
    CHOOSE x \in names : \A y \in names : y = x \/ str_less(y, x)

\* func_lookup, the closure that get_func_lookup returns
func_lookup(funcs, func_name) ==
    LET result == {name \in funcs : str_endswith(name, func_name)}
    IN  IF result # {} THEN Value(thing(sorted_last(result)))
        ELSE Raised("OscanaError", TRUE)

\* get_func_lookup(globals_, "hlp_")(func_name) is called.
hlp_lookup_call ==
    LET r == func_lookup(funcs_of(op.arg.globals_, w_hlp_), op.arg.func_name)
    IN  IF r.kind = "value" THEN Return("hlp_lookup", r.value)
        ELSE Raise("hlp_lookup", Error(r.type, "Unsuccessful in finding latest version", 0))

InitLookup ==
    \E g \in GlobalsSets, n \in {w_from_sntp, w_from_udst, w_to_hdf5} :
        InitCall([globals_ |-> g, func_name |-> n])

NextLookup == hlp_lookup_call

SpecLookup == InitLookup /\ [][NextLookup]_vars

(* --------------- the loader's metadata check over a call -------------- *)

\* Number of files of one call whose metadata the loader compares.
MaxAccept == 3

\* File Metadata of the files of a call: the metadata of fA with another
\* interaction region, run number or file name.
AcceptMetas == {Variant(D) : D \in SUBSET {"interaction", "run_number", "file_name"}}

\* The for loop of hlp_20250205_from_sntp over files that _v1_naive_loader
\* loaded with the metadata metas: the accepted metadata and the number of
\* exceptions caught.
RECURSIVE accept_loop(_, _, _)
accept_loop(metas, accepted, n_exceptions) ==
    IF metas = <<>>
    THEN [f_metadata_list |-> accepted, exceptions_ |-> n_exceptions]
    ELSE IF MetadataMismatch(Head(metas), accepted)
    THEN accept_loop(Tail(metas), accepted, n_exceptions + 1)
    ELSE accept_loop(Tail(metas), Append(accepted, Head(metas)), n_exceptions)

\* hlp_20250205_from_sntp, its metadata result: the list of the accepted
\* metadata, or the error raised after the loop.
hlp_from_sntp_metadata(metas) ==
    LET r == accept_loop(metas, <<>>, 0)
    IN  IF r.exceptions_ > 0 THEN Raised("OscanaError", TRUE)
        ELSE Value(r.f_metadata_list)

\* The loader is called for files with the metadata op.arg.
hlp_from_sntp_metadata_call ==
    LET r == hlp_from_sntp_metadata(op.arg)
    IN  IF r.kind = "value" THEN Return("hlp_from_sntp", r.value)
        ELSE Raise("hlp_from_sntp", Error(r.type, "One or more files failed to load!", 0))

InitAccept == \E ms \in SeqsUpTo(AcceptMetas, MaxAccept) : InitCall(ms)

NextAccept == hlp_from_sntp_metadata_call

SpecAccept == InitAccept /\ [][NextAccept]_vars

(* ------------------- ledger to dict and back --------------------------- *)

\* Variant of to_dict that stores the shortened name under 'name'.
TransformMetadata_to_dict_shortened(transforms_) ==
    [transforms |->
        [k \in 1..Len(transforms_) |->
            [name           |-> extract_transform_name(transforms_[k][1]),
             shortened_name |-> extract_transform_name(transforms_[k][1]),
             kwargs         |-> transforms_[k][2]]]]

\* TransformMetadata.to_dict
TransformMetadata_to_dict(transforms_) ==
    [transforms |->
        [k \in 1..Len(transforms_) |->
            [name           |-> transforms_[k][1],
             shortened_name |-> extract_transform_name(transforms_[k][1]),
             kwargs         |-> transforms_[k][2]]]]

\* TransformMetadata.from_dict: the ledger of the dict, or the error of the
\* first entry without 'name' or 'kwargs', or of a dict without
\* 'transforms'.
TransformMetadata_from_dict(data) ==
    IF "transforms" \notin DOMAIN data THEN Raised("KeyError", TRUE)
    ELSE IF \E k \in 1..Len(data.transforms) :
                \/ "name" \notin DOMAIN data.transforms[k]
                \/ "kwargs" \notin DOMAIN data.transforms[k]
    THEN Raised("OscanaError", TRUE)
    ELSE Value([k \in 1..Len(data.transforms) |->
                   <<data.transforms[k].name, data.transforms[k].kwargs>>])

\* The dict d without the key `key`.
without(d, key) == [x \in DOMAIN d \ {key} |-> d[x]]

\* Dicts that to_dict did not write: no 'transforms' key, or one entry of a
\* written dict without its 'name' or its 'kwargs'.
DamagedDicts ==
    {without(TransformMetadata_to_dict(<<>>), "transforms"), [cuts |-> <<>>]}
        \cup UNION {{[transforms |->
                        [TransformMetadata_to_dict(m).transforms EXCEPT
                            ![k] = without(@, key)]] :
                        k \in 1..Len(m), key \in {"name", "kwargs"}} :
                    m \in Ledgers}

\* TransformMetadata.from_dict(m.to_dict()) is evaluated.
TransformMetadata_round_trip_call ==
    /\ op.arg.via = "to_dict"
    /\ LET r == TransformMetadata_from_dict(TransformMetadata_to_dict(op.arg.value))
       IN  IF r.kind = "value" THEN Return("from_dict(to_dict)", r.value)
           ELSE Raise("from_dict(to_dict)", Error(r.type, "Failed to load the transforms", 0))

\* TransformMetadata.from_dict(data) is evaluated for a dict from elsewhere.
TransformMetadata_from_dict_call ==
    /\ op.arg.via = "dict"
    /\ LET r == TransformMetadata_from_dict(op.arg.value)
       IN  IF r.kind = "value" THEN Return("from_dict", r.value)
           ELSE Raise("from_dict", Error(r.type, "Failed to load the transforms", 0))

InitRoundTrip ==
    \/ \E m \in Ledgers : InitCall([via |-> "to_dict", value |-> m])
    \/ \E d \in DamagedDicts : InitCall([via |-> "dict", value |-> d])

NextRoundTrip ==
    \/ TransformMetadata_round_trip_call
    \/ TransformMetadata_from_dict_call

SpecRoundTrip == InitRoundTrip /\ [][NextRoundTrip]_vars

(* ====================== apply_transforms: claims ====================== *)

\* An apply_transforms call has returned or raised.
ApplyDone == pc = "idle" /\ op.name = "apply_transforms"

\* The attempts that raised / that succeeded, as list positions in order.
Failed == SelectSeq(attempts, LAMBDA a : a.raised)

Succeeded == SelectSeq(attempts, LAMBDA a : ~a.raised)

\* The log records of one level.
LogOf(level) == SelectSeq(log, LAMBDA e : e.level = level)

\* C1: apply_transforms attempts every transform of the list exactly once, in
\* list order, also after a transform raised; no error reaches the caller
\* while the loop runs; when the call is over exactly one aggregate error was
\* raised if some transform raised, and none otherwise.
C1_AllAttemptedThenOneError ==
    /\ pc = "apply" =>
          /\ raised = NoError
          /\ Len(attempts) = i
          /\ \A k \in 1..i : attempts[k].index = k
    /\ ApplyDone =>
          /\ Len(attempts) = Len(transforms)
          /\ \A k \in 1..Len(attempts) : attempts[k].index = k
          /\ (raised # NoError) <=> (Failed # <<>>)
          /\ raised # NoError => raised.type = "OscanaError"
          /\ Len(LogOf("error")) = IF Failed # <<>> THEN 1 ELSE 0

\* C1 witness: a list of two transforms whose first raised and whose second
\* was still attempted and succeeded; the aggregate error was raised.
C1_Witness ==
    /\ ApplyDone
    /\ Len(transforms) = 2
    /\ attempts[1].raised
    /\ ~attempts[2].raised
    /\ raised.type = "OscanaError"

\* The ledger entries of the successful attempts, in application order.
SuccessEntries ==
    [k \in 1..Len(Succeeded) |->
        <<transforms[Succeeded[k].index].name,
          transforms[Succeeded[k].index].kwargs>>]

\* C2: after apply_transforms the ledger is the ledger of before the call
\* followed by one (name, parameters) entry per successful transform, in
\* application order; a transform that raised adds none.
C2_LedgerGainsSuccesses ==
    (pc = "apply" \/ ApplyDone) =>
        t_metadata = pre.t_metadata \o SuccessEntries

\* C2 witness: two different transforms both succeeded (k = 0, N = 2): the
\* ledger gained both, in list order.
C2_Witness ==
    /\ ApplyDone
    /\ Len(transforms) = 2
    /\ transforms[1] # transforms[2]
    /\ Failed = <<>>
    /\ Len(t_metadata) = Len(pre.t_metadata) + 2

\* The tables after the first k attempts of the call, computed from the
\* tables of before the call: each successful transform applied to the
\* result of the previous ones, a failed one skipped.
RECURSIVE Composed(_)
Composed(k) ==
    IF k = 0
    THEN [table |-> pre.data_table, cuts |-> pre.cuts_table]
    ELSE LET prev == Composed(k - 1)
             r == Transform_call(transforms[k], prev.table, prev.cuts)
         IN  IF attempts[k].raised THEN prev
             ELSE [table |-> r.table, cuts |-> r.cuts]

\* C3: each transform is invoked on the table and mask left by the most
\* recent successful transform before it (the pre-call tables if none), and
\* the handler's tables are the composition, in list order, of the successful
\* transforms applied to the pre-call tables.
C3_ComposedInOrder ==
    (pc = "apply" \/ ApplyDone) =>
        /\ \A k \in 1..Len(attempts) :
              /\ attempts[k].table = Composed(k - 1).table
              /\ attempts[k].cuts = Composed(k - 1).cuts
        /\ data_table = Composed(Len(attempts)).table
        /\ cuts_table = Composed(Len(attempts)).cuts

\* C3 witness: the second transform succeeded on a table the first one had
\* changed, and the order matters for the result.
C3_Witness ==
    /\ ApplyDone
    /\ Len(transforms) = 2
    /\ Failed = <<>>
    /\ attempts[2].table # pre.data_table
    /\ data_table # attempts[2].table
    /\ LET r1 == Transform_call(transforms[2], pre.data_table, pre.cuts_table)
           r2 == Transform_call(transforms[1], r1.table, r1.cuts)
       IN  r2.table # data_table

\* C4: an iteration whose transform raised leaves the data table and the cuts
\* table as they were, and the step that raises the aggregate error leaves
\* them as the successful transforms made them.
C4_FailureKeepsTables ==
    [][/\ (pc = "apply" /\ n_errors' # n_errors) =>
              (data_table' = data_table /\ cuts_table' = cuts_table)
       /\ (pc = "apply" /\ pc' = "idle") =>
              (data_table' = data_table /\ cuts_table' = cuts_table)]_vars

\* C4 witness: the aggregate error was raised and the table still shows the
\* effect of the transform that succeeded.
C4_Witness ==
    /\ ApplyDone
    /\ raised.type = "OscanaError"
    /\ Succeeded # <<>>
    /\ data_table # pre.data_table
    /\ data_table = Composed(Len(attempts)).table

\* Position of the aggregate error in the log (0 when there is none).
ErrorAt ==
    IF \E k \in 1..Len(log) : log[k].level = "error"
    THEN CHOOSE k \in 1..Len(log) : log[k].level = "error"
    ELSE 0

\* C5: one warning per failed transform, naming it; the aggregate error
\* comes after all of them and reports their number.
C5_WarningsThenCount ==
    /\ (pc = "apply" \/ ApplyDone) =>
          /\ Len(LogOf("warning")) = Len(Failed)
          /\ \A k \in 1..Len(Failed) : LogOf("warning")[k].index = Failed[k].index
    /\ (ApplyDone /\ Failed # <<>>) =>
          /\ raised.n = Len(Failed)
          /\ raised.n = Len(LogOf("warning"))
          /\ ErrorAt = Len(log)
          /\ \A k \in 1..Len(log) : log[k].level = "warning" => k < ErrorAt

\* C5 witness: both transforms of a list of two raised: two warnings, then
\* the error reporting 2.
C5_Witness ==
    /\ ApplyDone
    /\ Len(Failed) = 2
    /\ Len(LogOf("warning")) = 2
    /\ raised.n = 2

IngestDone == pc = "idle" /\ op.name = "from_sntp"

\* Number of rows of the table that came from file f.
RowCount(f, table) == Len(SelectSeq(table, LAMBDA r : r[1] = f))

\* Number of File Metadata of the list that describe file f.
MetaCount(f, metas) == Len(SelectSeq(metas, LAMBDA m : m.file_name = f))

\* File f is in the handler once: one File Metadata, one copy of its rows.
IngestedOnce(f, table, metas) ==
    /\ MetaCount(f, metas) = 1
    /\ RowCount(f, table) = Len(FileRows(f))

C7_DuplicateInBatchFails ==
    /\ (IngestDone /\ ~NoRepeats(op.arg)) => raised # NoError
    /\ \A f \in Files : RowCount(f, data_table) <= Len(FileRows(f))

\* C8: all File Metadata of the handler's list are pairwise compatible,
\* whichever calls ingested them.  (The loader compares only the files of one
\* call: this is the statement TLC refutes.)
C8_AllMetadataCompatible ==
    \A k, l \in 1..Len(f_metadata) :
        FileMetadata_eq(f_metadata[k], f_metadata[l])

\* C9: while the loader runs, and after an ingestion call that raised, the
\* data table and the File Metadata list are those of before the call: no
\* file of a failed batch is merged.
C9_FailedBatchMergesNothing ==
    (pc = "load" \/ (IngestDone /\ raised # NoError)) =>
        /\ data_table = pre.data_table
        /\ f_metadata = pre.f_metadata

\* C9 witness: a batch raised for a metadata mismatch although one of its
\* files had loaded, on a handler that already held rows.
C9_Witness ==
    /\ IngestDone
    /\ raised # NoError
    /\ data_list # <<>>
    /\ \E k \in 1..Len(exceptions_) : exceptions_[k].msg = "same metadata"
    /\ pre.data_table # <<>>
    /\ data_table = pre.data_table

C21_CachedOnlyIfMerged ==
    /\ pc = "idle" =>
          \A k \in 1..Len(cache) : MetaCount(cache[k], f_metadata) > 0
    /\ (IngestDone /\ files = <<>>) =>
          \A k \in 1..Len(op.arg) : MetaCount(op.arg[k], pre.f_metadata) > 0

\* The File Metadata and the rows of a list of files, in list order.
MetasOf(fs) == [k \in 1..Len(fs) |-> FileMeta(fs[k])]

RowsOf(fs) == Concat([k \in 1..Len(fs) |-> FileRows(fs[k])])

\* C22: the metadata list never holds two entries for one file; a call that
\* succeeded has appended the File Metadata of its new files, in list
\* order, to the list of before the call and their rows to the table of
\* before the call.  (A list that names a file twice is merged twice, see
\* C7: this is the statement TLC refutes.)
C22_OneEntryPerFileInOrder ==
    /\ \A f \in Files : MetaCount(f, f_metadata) <= 1
    /\ (IngestDone /\ raised = NoError) =>
          /\ f_metadata = pre.f_metadata \o MetasOf(files)
          /\ data_table = pre.data_table \o RowsOf(files)

\* C18: every call of from_udst, from_hdf5 or to_hdf5 that is over has
\* raised a not-implemented error, also a call that lists files an earlier
\* call was given, and has left the table and the metadata list alone.  (The
\* loader is reached through the instance and a call with nothing left
\* after the cache filter returns: this is the statement TLC refutes.)
C18_UnsupportedRaisesNotImplemented ==
    (pc = "idle" /\ op.name \in {"from_udst", "from_hdf5", "to_hdf5"}) =>
        /\ raised.type = "NotImplementedError"
        /\ data_table = pre.data_table
        /\ f_metadata = pre.f_metadata

(* ======================== construction: claims ======================== *)

\* C10: constructing a handler with a variable list that holds a name more
\* than once raises and yields no handler, whatever the strategy.  (The
\* constructor has no such test: this is the statement TLC refutes.)
C10_DuplicateVariablesRejected ==
    (op.name = "__init__" /\ ~NoRepeats(op.arg)) =>
        (raised # NoError /\ pc = "new")

\* A constructor call has returned or raised.
InitDone == op.name = "__init__"

\* PandasIO.get_data_length: len(self._parent._data_table)
get_data_length == Len(data_table)

\* C11: a constructor call whose strategy name is not in the registry raises
\* an error whose message names that strategy, and raises it before anything
\* is built: afterwards there is no handler, no strategy instance, no ledger,
\* no metadata list and no table.
C11_UnknownStrategyRaisesFirst ==
    (InitDone /\ op.data_io \notin plugins) =>
        /\ raised.type = "OscanaError"
        /\ raised.msg = op.data_io
        /\ pc = "new"
        /\ data_io = NoAttribute
        /\ cache = NoAttribute
        /\ t_metadata = NoAttribute
        /\ f_metadata = NoAttribute
        /\ data_table = NoAttribute
        /\ cuts_table = NoAttribute

\* C11 witness: DataHandler(..., "NoSuchIO") was called with a non-empty
\* variable list and raised the error naming NoSuchIO.
C11_Witness ==
    /\ InitDone
    /\ op.data_io = "NoSuchIO"
    /\ op.arg # <<>>
    /\ raised.msg = "NoSuchIO"
    /\ pc = "new"

\* C12: a constructor call with a registered strategy and a variable list
\* without repeats succeeds: the handler exists, its row count is 0, its
\* ledger and its File Metadata list are empty.
C12_FreshHandlerIsEmpty ==
    (InitDone /\ op.data_io \in plugins /\ NoRepeats(op.arg)) =>
        /\ raised = NoError
        /\ pc = "idle"
        /\ data_io = op.data_io
        /\ variables = op.arg
        /\ get_data_length = 0
        /\ t_metadata = <<>>
        /\ f_metadata = <<>>

\* C12 witness: DataHandler of three different variables on PandasIO was
\* built and reports 0 rows.
C12_Witness ==
    /\ InitDone
    /\ pc = "idle"
    /\ data_io = "PandasIO"
    /\ Len(variables) = 3
    /\ NoRepeats(variables)
    /\ get_data_length = 0

\* C24: a constructed handler holds a cuts table exactly when it was built
\* with the make-cuts-table flag true; built with the flag false, its
\* _cuts_table attribute was never assigned a table.
C24_CutsTableOnlyWhenRequested ==
    (InitDone /\ pc = "idle") =>
        ((cuts_table # NoAttribute) <=> (has_cuts_table = TRUE))

(* ====================== ledger equality: claims ======================= *)

\* The class names a ledger records.
RecordedNames(ledger) == {ledger[k][1] : k \in 1..Len(ledger)}

\* The positions of the underscores of a name.
Underscores(n) == {k \in 1..Len(n) : n[k] = "_"}

\* The short name of a class name: what follows its second underscore, in
\* lower case; empty when the name has fewer than two underscores.
ShortName(n) ==
    IF Cardinality(Underscores(n)) < 2
    THEN <<>>
    ELSE LET second == CHOOSE k \in Underscores(n) :
                           Cardinality({l \in Underscores(n) : l < k}) = 1
         IN  [k \in 1..(Len(n) - second) |-> lower_char(n[second + k])]

\* The short names of the classes a ledger records.
ShortNames(ledger) == {ShortName(n) : n \in RecordedNames(ledger)}

\* C13 as stated: two ledgers compare equal iff they record the same set of
\* class names.  (The comparison drops kind and date and lowers the case
\* first: this is the statement TLC refutes.)
C13_EqualIffSameRecordedNames ==
    Called("TransformMetadata.__eq__") =>
        (op.ret <=> RecordedNames(op.arg[1]) = RecordedNames(op.arg[2]))

\* C13 amended: two ledgers compare equal iff the sets of the short names of
\* their recorded classes are equal, the short name being the class name
\* without its kind and date fields, in lower case.
C13_EqualIffSameShortNames ==
    Called("TransformMetadata.__eq__") =>
        (op.ret <=> ShortNames(op.arg[1]) = ShortNames(op.arg[2]))

\* C13 witness: a ledger recording cut_1_low and one recording cut_2_low
\* compared equal.
C13_Witness ==
    /\ Called("TransformMetadata.__eq__")
    /\ RecordedNames(op.arg[1]) = {cut_1_low}
    /\ RecordedNames(op.arg[2]) = {cut_2_low}
    /\ op.ret = TRUE

\* The entries of a ledger, as a set.
Entries(ledger) == {ledger[k] : k \in 1..Len(ledger)}

\* Two ledgers differ in nothing but the order and the number of repeats of
\* their entries.
SameEntries(a, b) == Entries(a) = Entries(b)

\* Two ledgers differ in nothing but the parameters of their entries.
SameNamesInOrder(a, b) ==
    /\ Len(a) = Len(b)
    /\ \A k \in 1..Len(a) : a[k][1] = b[k][1]

\* C14: ledger equality is reflexive and symmetric; ledgers that differ only
\* in entry order or in repeats compare equal, and so do ledgers that differ
\* only in the parameters of their entries; != is the negation.
C14_EqualityIsCoarse ==
    /\ Called("TransformMetadata.__eq__") =>
          /\ op.arg[1] = op.arg[2] => op.ret
          /\ op.ret <=> TransformMetadata_eq(op.arg[2], op.arg[1])
          /\ SameEntries(op.arg[1], op.arg[2]) => op.ret
          /\ SameNamesInOrder(op.arg[1], op.arg[2]) => op.ret
    /\ Called("TransformMetadata.__ne__") =>
          /\ op.arg[1] = op.arg[2] => ~op.ret
          /\ SameEntries(op.arg[1], op.arg[2]) => ~op.ret
          /\ SameNamesInOrder(op.arg[1], op.arg[2]) => ~op.ret

\* C14 witness: [A, B] compared equal to [B, A] for two different transforms
\* A and B.
C14_Witness ==
    /\ Called("TransformMetadata.__eq__")
    /\ Len(op.arg[1]) = 2
    /\ op.arg[1][1] = <<cut_1_low, <<>>>>
    /\ op.arg[1][2] = <<cut_1_low_x, <<>>>>
    /\ op.arg[2] = <<op.arg[1][2], op.arg[1][1]>>
    /\ op.ret = TRUE

(* ================= File Metadata compatibility: claims ================ *)

\* The fields in which two File Metadata differ.
DifferIn(a, b) == {f \in FieldNames : a[f] # b[f]}

\* The fields the compatibility test reads.
ComparedFields ==
    {"file_type", "experiment", "detector", "flavour", "mag_field",
     "horn_pos", "tgt_z_shift", "current_sign", "current", "run_number",
     "mc_version", "reco_version"}

\* C15 as stated: two File Metadata are compatible iff they agree on every
\* field other than interaction; a difference in file name, file format,
\* record count or a timestamp makes them incompatible.  (The comparison
\* does not read those fields: this is the statement TLC refutes.)
C15_CompatibleIffOnlyInteractionDiffers ==
    Called("FileMetadata.__eq__") =>
        (op.ret <=> DifferIn(op.arg[1], op.arg[2]) \subseteq {"interaction"})

\* C15 amended: two File Metadata are compatible iff they agree on file
\* type, experiment, detector, flavour, magnetic field, horn position,
\* target shift, current sign, current, run number and both version pairs;
\* interaction, file name, file format, start and end time, record count and
\* creation time are not compared.
C15_CompatibleIffComparedFieldsAgree ==
    Called("FileMetadata.__eq__") =>
        (op.ret <=> DifferIn(op.arg[1], op.arg[2]) \cap ComparedFields = {})

\* C15 witness: two File Metadata that differ in file name and in record
\* count were found compatible.
C15_Witness ==
    /\ Called("FileMetadata.__eq__")
    /\ DifferIn(op.arg[1], op.arg[2]) = {"file_name", "n_records"}
    /\ op.ret = TRUE

\* C16: File Metadata that differ only in interaction are compatible (==
\* true, != false); File Metadata that differ in run number are not (==
\* false, != true).
C16_InteractionIgnoredRunCompared ==
    /\ Called("FileMetadata.__eq__") =>
          /\ DifferIn(op.arg[1], op.arg[2]) = {"interaction"} => op.ret
          /\ "run_number" \in DifferIn(op.arg[1], op.arg[2]) => ~op.ret
    /\ Called("FileMetadata.__ne__") =>
          /\ DifferIn(op.arg[1], op.arg[2]) = {"interaction"} => ~op.ret
          /\ "run_number" \in DifferIn(op.arg[1], op.arg[2]) => op.ret

\* C16 witness: a pair that differs only in interaction compared equal.
C16_Witness ==
    /\ Called("FileMetadata.__eq__")
    /\ DifferIn(op.arg[1], op.arg[2]) = {"interaction"}
    /\ op.arg[1].run_number = op.arg[2].run_number
    /\ op.ret = TRUE

(* ================= resolving a file identifier: claims ================ *)

\* The key of the call is in the environment.
KeyPresent == op.arg.file \in DOMAIN op.arg.environ

\* C20: the resolution of a key that is absent from the environment raises
\* OscanaError; that of a key that is present either returns a path, which
\* then exists on disk, or raises FileNotFoundError; these are the only
\* outcomes.  (A present value that starts with "C:" and has no "://" raises
\* IndexError on Linux: this is the statement TLC refutes.)
C20_AbsentOrMissingOrPath ==
    Called("_get_dir_from_env") =>
        /\ ~KeyPresent => raised.type = "OscanaError"
        /\ KeyPresent => raised.type \in {"none", "FileNotFoundError"}
        /\ raised = NoError => (KeyPresent /\ op.ret \in op.arg.disk)

(* ========================= lifetime: claims =========================== *)

\* s is a prefix of t.
IsPrefix(s, t) == Len(s) <= Len(t) /\ SubSeq(t, 1, Len(s)) = s

\* C23: the ledger is empty when the constructor returns; during and after
\* every operation of the handler the ledger of before the operation is a
\* prefix of the ledger; during and after an ingestion call or a print
\* operation the ledger is the one of before the operation.
C23_LedgerAppendOnly ==
    /\ (InitDone /\ pc = "idle") => t_metadata = <<>>
    /\ op.name \in {"from_sntp", "apply_transforms", "print_handler_info",
                     "print_metadata"} =>
          IsPrefix(pre.t_metadata, t_metadata)
    /\ op.name \in {"from_sntp", "print_handler_info", "print_metadata"} =>
          t_metadata = pre.t_metadata

\* C23 witness: a handler whose ledger already had an entry merged a file,
\* and the ledger is still the one of before the call.
C23_Witness ==
    /\ IngestDone
    /\ raised = NoError
    /\ data_table # pre.data_table
    /\ pre.t_metadata # <<>>
    /\ t_metadata = pre.t_metadata

(* =================== File Metadata from a file name: claims ============ *)

\* The file name of the call matches no grammar, or its file format is
\* unknown.
UnknownName ==
    LET parts == str_split(op.arg[1], <<".">>)
    IN  \/ ~re_match_daikon(op.arg[1]).matched
        \/ EFileFormat(parts[Len(parts)]) = "????"

\* C25: FileMetadata.from_sntp either returns a File Metadata with every
\* field of the dataclass or raises; for a file name that matches no grammar
\* or has an unknown file format it raises; it never returns None or a
\* metadata with fields missing.
C25_FullMetadataOrRaise ==
    Called("FileMetadata.from_sntp") =>
        /\ raised = NoError => DOMAIN op.ret = FieldNames
        /\ raised # NoError =>
              raised.type \in {"OscanaError", "ValueError", "KeyError"}
        /\ UnknownName => raised # NoError

\* C25 witness: a call with a readable file whose name has none of the
\* known forms raised the OscanaError of from_sntp.
C25_Witness ==
    /\ Called("FileMetadata.from_sntp")
    /\ UnknownName
    /\ op.arg[2].utc # <<>>
    /\ raised.type = "OscanaError"
    /\ log # <<>>

\* Number of rows of the run-number column col that hold v.
RunCount(v, col) == Cardinality({k \in 1..Len(col) : col[k] = v})

\* C26: the run number stored in the File Metadata that from_sntp returns
\* is a most frequent value of the file's run-number column (the single
\* value when all rows agree); a readable file with a known name whose
\* column holds several values does not make from_sntp raise.
C26_RunNumberIsMajorityOfRows ==
    Called("FileMetadata.from_sntp") =>
        LET col == op.arg[2].run
        IN  /\ raised = NoError =>
                  /\ RunCount(op.ret.run_number, col) > 0
                  /\ \A k \in 1..Len(col) :
                        RunCount(op.ret.run_number, col) >= RunCount(col[k], col)
            /\ (~UnknownName /\ col # <<>>
                    /\ int_of(re_match_daikon(op.arg[1]).flr) \in EDaikonFlavour_values) =>
                  raised = NoError

(* ========================= import_plugins: claims ===================== *)

\* The positions, in scan order, of the modules that define __all__.
WithExportList == {k \in 1..Len(op.arg.modules) : op.arg.modules[k].has_all}

LogicalName(name) == str_join(<<"_">>, slice_from(str_split(name, <<"_">>), 2))

\* The embedded date of a prefixed, dated function name.
EmbeddedDate(name) == int_of(str_split(name, <<"_">>)[2])

\* The prefixed functions of the call's globals whose logical name is the
\* requested name.
Candidates ==
    {name \in op.arg.globals_ :
        /\ str_startswith(name, w_hlp_)
        /\ LogicalName(name) = op.arg.func_name}

\* C28: the lookup returns the function with the latest embedded date among
\* the prefixed functions whose logical name equals the requested name, and
\* raises when there is none; a function whose logical name only ends with
\* the requested name is never returned.
C28_LatestOfExactName ==
    Called("hlp_lookup") =>
        /\ Candidates = {} => raised # NoError
        /\ Candidates # {} =>
              /\ raised = NoError
              /\ op.ret.defined_as \in Candidates
              /\ \A name \in Candidates :
                    EmbeddedDate(name) <= EmbeddedDate(op.ret.defined_as)

(* ============== the loader's metadata check: claims =================== *)

\* The File Metadata of the files of the call.
CallMetas == {op.arg[k] : k \in 1..Len(op.arg)}

\* C29: compatibility of File Metadata is reflexive, symmetric and
\* transitive, and the metadata list of a loader call that succeeded, in
\* which every file was compared with the one accepted before it only, is
\* pairwise compatible.
C29_CompatibilityIsEquivalence ==
    Called("hlp_from_sntp") =>
        /\ \A x \in CallMetas : FileMetadata_eq(x, x)
        /\ \A x, y \in CallMetas : FileMetadata_eq(x, y) => FileMetadata_eq(y, x)
        /\ \A x, y, z \in CallMetas :
              (FileMetadata_eq(x, y) /\ FileMetadata_eq(y, z)) => FileMetadata_eq(x, z)
        /\ raised = NoError =>
              \A a, b \in 1..Len(op.ret) : FileMetadata_eq(op.ret[a], op.ret[b])

\* C29 witness: a call for three files with three different File Metadata
\* succeeded, so the first and the third, never compared with each other by
\* the loader, are in its list.
C29_Witness ==
    /\ Called("hlp_from_sntp")
    /\ raised = NoError
    /\ Len(op.ret) = 3
    /\ Cardinality(CallMetas) = 3
    /\ op.ret[1] # op.ret[3]

(* ================== ledger to dict and back: claims =================== *)

\* The dict of the call has no 'transforms', or an entry of it has no 'name'
\* or no 'kwargs'.
Malformed(data) ==
    \/ "transforms" \notin DOMAIN data
    \/ \E k \in 1..Len(data.transforms) :
          {"name", "kwargs"} \ DOMAIN data.transforms[k] # {}

\* C30: from_dict(m.to_dict()) returns a ledger with the same (name,
\* parameters) entries as m, in the same order; from_dict raises for a dict
\* without 'transforms' and for a dict with an entry that lacks 'name' or
\* 'kwargs'.
C30_RoundTripKeepsEntries ==
    /\ Called("from_dict(to_dict)") =>
          /\ raised = NoError
          /\ Len(op.ret) = Len(op.arg.value)
          /\ \A k \in 1..Len(op.ret) :
                /\ op.ret[k][1] = op.arg.value[k][1]
                /\ op.ret[k][2] = op.arg.value[k][2]
    /\ (Called("from_dict") /\ Malformed(op.arg.value)) =>
          /\ raised # NoError
          /\ op.ret = NoValue

\* C30 witness: a ledger of two entries, one recorded under a dated class
\* name and with a parameter, came back from the round trip.
C30_Witness ==
    /\ Called("from_dict(to_dict)")
    /\ Len(op.ret) = 2
    /\ op.ret[1] = <<cut_1_low, << <<"min", 2>> >> >>
    /\ op.ret[2][1] = cut_2_low

====
